---- MODULE Spec2Model ----
(***************************************************************************)
(* GenSpark career advisor: the skill canonicalizer, the similarity and    *)
(* ranking engine, the profile validators, the learning-plan parser and    *)
(* the POST /api/recommend handler, as state machines.                     *)
(*                                                                         *)
(* Strings are sequences of one-character strings.  Numbers that the code  *)
(* keeps as floating point are kept exact: a role weight is an integer     *)
(* number of tenths, a ratio is a pair of integers, and Math.round is      *)
(* computed on the exact value.                                            *)
(***************************************************************************)
EXTENDS Integers, Sequences, FiniteSets, TLC

VARIABLES
    call,       \* the last call of a pure function: [fn, in, out]
    pc,         \* position of the POST /api/recommend handler
    env,        \* process environment: the AI key, the role catalog
    req,        \* the request body being handled
    resp,       \* the response sent, [status |-> 0] while none is
    gen,        \* generateRecommendations' locals
    store       \* the document store: recommendation documents added

vars == <<call, pc, env, req, resp, gen, store>>
hvars == <<pc, env, req, resp, gen, store>>

----------------------------------------------------------------------------
(* Bounds of the model *)

MaxNameLen == 4          \* characters of a raw skill name
MaxUserSkills == 3       \* entries of a user skill list
MaxRoleSkills == 3       \* entries of a role skill list
MaxListLen == 21         \* entries of a profile's skills or interests array
MaxCatalog == 3          \* roles of the catalog
MaxRankSkills == 2       \* skills of a profile that is ranked
MaxTextLen == 4          \* pieces of an AI response text
MaxWeeks == 5            \* entries of a parsed weeks array

----------------------------------------------------------------------------
(* JavaScript values: a tag t (the typeof, with arrays and null apart) and *)
(* the value v                                                             *)

Str(s) == [t |-> "string", v |-> s]       \* s: a sequence of characters
Num(n) == [t |-> "number", v |-> n]
Arr(a) == [t |-> "array", v |-> a]        \* a: a sequence of values
Obj(o) == [t |-> "object", v |-> o]       \* o: a record of values
Undefined == [t |-> "undefined", v |-> 0] \* also a missing field
Null == [t |-> "null", v |-> 0]

----------------------------------------------------------------------------
(* Characters and strings *)

Chars == {"a", "b", "A", " ", "+", "-", "/"}

Lower(c) == IF c = "A" THEN "a" ELSE IF c = "B" THEN "b" ELSE c

IsSpace(c) == c \in {" ", "\t", "\n"}

\* \w of a JavaScript regular expression, over the characters used here
IsWordChar(c) == c \in {"a", "b", "c", "A", "B", "0", "1", "_"}

SeqsUpTo(S, n) == UNION {[1..k -> S] : k \in 0..n}

\* typeof v === 'string'
IsString(v) == v.t = "string"

RECURSIVE TrimStart(_)
TrimStart(s) ==
    IF s = <<>> THEN s
    ELSE IF IsSpace(Head(s)) THEN TrimStart(Tail(s)) ELSE s

RECURSIVE TrimEnd(_)
TrimEnd(s) ==
    IF s = <<>> THEN s
    ELSE IF IsSpace(s[Len(s)]) THEN TrimEnd(SubSeq(s, 1, Len(s) - 1)) ELSE s

\* String.prototype.trim
Trim(s) == TrimEnd(TrimStart(s))

\* String.prototype.toLowerCase
ToLowerCase(s) == [i \in 1..Len(s) |-> Lower(s[i])]

\* .replace(/[^\/\w\s-]/g, '')
StripOther(s) ==
    SelectSeq(s, LAMBDA c : c = "/" \/ c = "-" \/ IsWordChar(c) \/ IsSpace(c))

\* .replace(/\s+/g, ' ')
RECURSIVE CollapseSpaces(_)
CollapseSpaces(s) ==
    IF s = <<>> THEN s
    ELSE IF IsSpace(Head(s))
         THEN <<" ">> \o CollapseSpaces(TrimStart(s))
         ELSE <<Head(s)>> \o CollapseSpaces(Tail(s))

\* skill_aliases.json: raw spelling -> canonical token
skillAliases ==
    (<<"a", "b">> :> <<"b">>) @@ (<<"b", "-", "a">> :> <<"b", " ", "a">>)

canonicalizeSkillName(name) ==
    IF ~IsString(name) THEN <<>>
    ELSE LET cleaned == CollapseSpaces(StripOther(ToLowerCase(Trim(name.v))))
         IN  IF cleaned \in DOMAIN skillAliases /\ skillAliases[cleaned] # <<>>
             THEN skillAliases[cleaned] ELSE cleaned

----------------------------------------------------------------------------
(* The similarity engine.  A skill list argument is Arr(<<...>>) or absent  *)
(* (Undefined, Null).  A vector is a function from canonical tokens to     *)
(* weights; user weights count units of 1.0 and role weights tenths, which *)
(* leaves the cosine unchanged.                                            *)

\* !v
Falsy(v) ==
    \/ v.t \in {"undefined", "null"}
    \/ v.t = "string" /\ v.v = <<>>
    \/ v.t = "number" /\ v.v = 0

Range(s) == {s[i] : i \in 1..Len(s)}

\* Math.min, Math.max
Min(a, b) == IF a < b THEN a ELSE b
Max(a, b) == IF a > b THEN a ELSE b

\* skills.map(s => canonicalizeSkillName(s))
CanonicalNames(skills) == [i \in 1..Len(skills) |-> canonicalizeSkillName(skills[i])]

RECURSIVE SumOver(_, _)
SumOver(S, f) ==
    IF S = {} THEN 0
    ELSE LET k == CHOOSE x \in S : TRUE IN f[k] + SumOver(S \ {k}, f)

\* Math.round of 100 * num / sqrt(den2), for num >= 0 and den2 > 0
Round100(sim) ==
    CHOOSE n \in 0..200 :
        /\ n = 0 \/ (2 * n - 1) * (2 * n - 1) * sim.den2 <= 40000 * sim.num * sim.num
        /\ n = 200 \/ (2 * n + 1) * (2 * n + 1) * sim.den2 > 40000 * sim.num * sim.num

\* Math.round of num / den, for num >= 0 and den > 0
RoundRatio(num, den) == (2 * num + den) \div (2 * den)

normalizeSkills(skills) ==
    LET keys == {canonicalizeSkillName(skills[i]) : i \in 1..Len(skills)} \ {<<>>}
    IN  [k \in keys |-> 1]

\* cosineSimilarity dividing by the magnitude of vectorA alone
cosineSimilarityHalfNormalized(vectorA, vectorB) ==
    LET allKeys == DOMAIN vectorA \cup DOMAIN vectorB
        valueA == [k \in allKeys |-> IF k \in DOMAIN vectorA THEN vectorA[k] ELSE 0]
        valueB == [k \in allKeys |-> IF k \in DOMAIN vectorB THEN vectorB[k] ELSE 0]
        dotProduct == SumOver(allKeys, [k \in allKeys |-> valueA[k] * valueB[k]])
        magnitudeA == SumOver(allKeys, [k \in allKeys |-> valueA[k] * valueA[k]])
    IN  IF magnitudeA = 0 THEN [num |-> 0, den2 |-> 1]
        ELSE [num |-> dotProduct, den2 |-> magnitudeA]

\* the similarity dot / sqrt(magA2 * magB2) as the pair [num, den2]
cosineSimilarity(vectorA, vectorB) ==
    LET allKeys == DOMAIN vectorA \cup DOMAIN vectorB
        valueA == [k \in allKeys |-> IF k \in DOMAIN vectorA THEN vectorA[k] ELSE 0]
        valueB == [k \in allKeys |-> IF k \in DOMAIN vectorB THEN vectorB[k] ELSE 0]
        dotProduct == SumOver(allKeys, [k \in allKeys |-> valueA[k] * valueB[k]])
        magnitudeA == SumOver(allKeys, [k \in allKeys |-> valueA[k] * valueA[k]])
        magnitudeB == SumOver(allKeys, [k \in allKeys |-> valueB[k] * valueB[k]])
    IN  IF magnitudeA = 0 \/ magnitudeB = 0
        THEN [num |-> 0, den2 |-> 1]
        ELSE [num |-> dotProduct, den2 |-> magnitudeA * magnitudeB]

\* roleSkillsVector[canonical] = skill.weight || 1.0, a later skill of the
\* same canonical name replacing an earlier one
RoleSkillsVector(roleSkills) ==
    LET canon(i) == canonicalizeSkillName(roleSkills[i].name)
        last(k) == CHOOSE i \in 1..Len(roleSkills) :
                       /\ canon(i) = k
                       /\ \A j \in (i + 1)..Len(roleSkills) : canon(j) # k
    IN  [k \in {canon(i) : i \in 1..Len(roleSkills)} |->
            IF Falsy(roleSkills[last(k)].weight) THEN 10
            ELSE roleSkills[last(k)].weight.v]

EmptyOrAbsent(list) == Falsy(list) \/ list.v = <<>>

calculateFitScore(userSkills, roleSkills) ==
    IF EmptyOrAbsent(userSkills) \/ EmptyOrAbsent(roleSkills) THEN 0
    ELSE Round100(cosineSimilarity(normalizeSkills(userSkills.v),
                                   RoleSkillsVector(roleSkills.v)))

\* roleSkills.map(s => canonicalizeSkillName(s.name))
RoleNames(roleSkills) ==
    [i \in 1..Len(roleSkills) |-> canonicalizeSkillName(roleSkills[i].name)]

\* the ratio overlap / normalizedRoleSkills.length as the pair [num, den]
calculateOverlapRatio(userSkills, roleSkills) ==
    IF EmptyOrAbsent(userSkills) \/ EmptyOrAbsent(roleSkills)
    THEN [num |-> 0, den |-> 1]
    ELSE LET normalizedUserSkills == CanonicalNames(userSkills.v)
             normalizedRoleSkills == RoleNames(roleSkills.v)
             overlap == Len(SelectSeq(normalizedUserSkills,
                                      LAMBDA skill : skill \in Range(normalizedRoleSkills)))
         IN  [num |-> overlap, den |-> Len(normalizedRoleSkills)]

\* calculateGapSkills comparing with the user's raw spellings
calculateGapSkillsRaw(userSkills, roleSkills) ==
    IF Falsy(userSkills) \/ Falsy(roleSkills) THEN <<>>
    ELSE LET rawUserSkills ==
                 [i \in 1..Len(userSkills.v) |->
                     IF IsString(userSkills.v[i]) THEN userSkills.v[i].v ELSE <<>>]
         IN  SelectSeq(RoleNames(roleSkills.v),
                       LAMBDA skill : skill \notin Range(rawUserSkills))

calculateGapSkills(userSkills, roleSkills) ==
    IF Falsy(userSkills) \/ Falsy(roleSkills) THEN <<>>
    ELSE LET normalizedUserSkills == CanonicalNames(userSkills.v)
         IN  SelectSeq(RoleNames(roleSkills.v),
                       LAMBDA skill : skill \notin Range(normalizedUserSkills))

calculateOverlapSkills(userSkills, roleSkills) ==
    IF Falsy(userSkills) \/ Falsy(roleSkills) THEN <<>>
    ELSE LET normalizedRoleSkills == RoleNames(roleSkills.v)
         IN  SelectSeq(CanonicalNames(userSkills.v),
                       LAMBDA skill : skill \in Range(normalizedRoleSkills))

\* text.includes(sub)
Includes(text, sub) ==
    \E i \in 0..(Len(text) - Len(sub)) : SubSeq(text, i + 1, i + Len(sub)) = sub

\* 1 or 0; every interest is a string
calculateInterestMatch(userInterests, role) ==
    IF Falsy(userInterests) \/ Falsy(role) THEN 0
    ELSE LET roleText == ToLowerCase(role.v.sector \o <<" ">> \o role.v.title)
         IN  IF \E i \in 1..Len(userInterests.v) :
                    Includes(roleText, Trim(ToLowerCase(userInterests.v[i].v)))
             THEN 1 ELSE 0

\* Math.round(fit * 0.6 + ratio * 100 * 0.2 + interest * 100 * 0.2)
calculateEnhancedFitScore(userSkills, roleSkills, userInterests, role) ==
    LET fit == calculateFitScore(userSkills, roleSkills)
        ratio == calculateOverlapRatio(userSkills, roleSkills)
        interest == calculateInterestMatch(userInterests, role)
    IN  RoundRatio(3 * fit * ratio.den + 100 * ratio.num + 100 * interest * ratio.den,
                   5 * ratio.den)

----------------------------------------------------------------------------
(* Lenient cleaning of a profile *)

SkillLengthCap == 50
SkillsCap == 20
InterestsCap == 10
WeeklyTimeMin == 1
WeeklyTimeMax == 40

\* s.substring(0, n)
Substring0(s, n) == SubSeq(s, 1, IF Len(s) < n THEN Len(s) ELSE n)

sanitizeSkillUncapped(skill) ==
    IF ~IsString(skill) THEN <<>> ELSE canonicalizeSkillName(skill)

sanitizeSkill(skill) ==
    IF ~IsString(skill) THEN <<>>
    ELSE Substring0(canonicalizeSkillName(skill), SkillLengthCap)

\* list.map(sanitizeSkill).filter(skill => skill.length > 0), not sliced
CleanListUnsliced(list, cap) ==
    LET sanitized == [i \in 1..Len(list) |-> sanitizeSkill(list[i])]
        kept == SelectSeq(sanitized, LAMBDA skill : Len(skill) > 0)
    IN  [i \in 1..Len(kept) |-> Str(kept[i])]

\* list.map(sanitizeSkill).filter(skill => skill.length > 0).slice(0, cap)
CleanList(list, cap) ==
    LET sanitized == [i \in 1..Len(list) |-> sanitizeSkill(list[i])]
        kept == SelectSeq(sanitized, LAMBDA skill : Len(skill) > 0)
    IN  [i \in 1..(IF Len(kept) < cap THEN Len(kept) ELSE cap) |-> Str(kept[i])]

validEducation ==
    {Str(<<"1", "2", "t", "h">>), Str(<<"D", "i", "p", "l", "o", "m", "a">>),
     Str(<<"U", "G">>), Str(<<"P", "G">>), Str(<<"O", "t", "h", "e", "r">>)}
validBudget == {Str(<<"f", "r", "e", "e">>), Str(<<"l", "o", "w">>), Str(<<"a", "n", "y">>)}
validLanguage == {Str(<<"e", "n">>), Str(<<"h", "i">>)}

\* validEducation.includes(v) for the enumeration's set; a value of another
\* type is never a member
IncludesValue(valid, v) == v.t = "string" /\ v \in valid

validateAndCleanProfile(profile) ==
    [ name |-> profile.name,
      skills |-> IF profile.skills.t = "array"
                 THEN Arr(CleanList(profile.skills.v, SkillsCap))
                 ELSE profile.skills,
      interests |-> IF profile.interests.t = "array"
                    THEN Arr(CleanList(profile.interests.v, InterestsCap))
                    ELSE profile.interests,
      weeklyTime |-> IF profile.weeklyTime.t = "number"
                     THEN Num(Min(Max(profile.weeklyTime.v, WeeklyTimeMin), WeeklyTimeMax))
                     ELSE profile.weeklyTime,
      education |-> IF IncludesValue(validEducation, profile.education)
                    THEN profile.education ELSE Str(<<"O", "t", "h", "e", "r">>),
      budget |-> IF IncludesValue(validBudget, profile.budget)
                 THEN profile.budget ELSE Str(<<"f", "r", "e", "e">>),
      language |-> IF IncludesValue(validLanguage, profile.language)
                   THEN profile.language ELSE Str(<<"e", "n">>) ]

----------------------------------------------------------------------------
(* The role ranker *)

\* roleScores.sort((a, b) => b.score - a.score) with ties reversed: a role
\* is placed before the roles of equal score
RECURSIVE SortByScoreTiesReversed(_)
SortByScoreTiesReversed(roleScores) ==
    IF roleScores = <<>> THEN <<>>
    ELSE LET n == Len(roleScores)
             sorted == SortByScoreTiesReversed(SubSeq(roleScores, 1, n - 1))
             x == roleScores[n]
             before == SelectSeq(sorted, LAMBDA r : r.score > x.score)
             after == SelectSeq(sorted, LAMBDA r : r.score <= x.score)
         IN  before \o <<x>> \o after

\* roleScores.sort((a, b) => b.score - a.score): Array.prototype.sort is
\* stable, so a role is placed after the roles of greater or equal score
RECURSIVE SortByScore(_)
SortByScore(roleScores) ==
    IF roleScores = <<>> THEN <<>>
    ELSE LET n == Len(roleScores)
             sorted == SortByScore(SubSeq(roleScores, 1, n - 1))
             x == roleScores[n]
             before == SelectSeq(sorted, LAMBDA r : r.score >= x.score)
             after == SelectSeq(sorted, LAMBDA r : r.score < x.score)
         IN  before \o <<x>> \o after

\* one entry of roleScores: the role with score, overlapSkills, gapSkills
RoleMatch(profile, role) ==
    LET normalizedRoleSkills == RoleNames(role.skills)
        normalizedProfileSkills == CanonicalNames(profile.skills.v)
    IN  [ roleId |-> role.roleId, title |-> role.title, sector |-> role.sector,
          skills |-> role.skills,
          score |-> calculateEnhancedFitScore(profile.skills, Arr(role.skills),
                                              profile.interests, Obj(role)),
          overlapSkills |-> SelectSeq(normalizedProfileSkills,
                                LAMBDA skill : skill \in Range(normalizedRoleSkills)),
          gapSkills |-> SelectSeq(normalizedRoleSkills,
                            LAMBDA skill : skill \notin Range(normalizedProfileSkills)) ]

\* roles: Object.values(roles) of the catalog, in iteration order
getTopRoleMatches(roles, profile, count) ==
    LET roleScores == [i \in 1..Len(roles) |-> RoleMatch(profile, roles[i])]
        sorted == SortByScore(roleScores)
    IN  SubSeq(sorted, 1, Min(Max(count, 0), Len(sorted)))

----------------------------------------------------------------------------
(* The plan parser.  An AI response is a sequence of pieces of text: a    *)
(* fence ```json, a fence ```, an opening or closing brace, white space,   *)
(* prose, the members of a JSON object (the text between its braces, v     *)
(* holding what they parse to) or a JSON scalar.                           *)

Piece(k) == [t |-> k, v |-> 0]
Members(o) == [t |-> "members", v |-> o]
Scalar(x) == [t |-> "scalar", v |-> x]

IsFence(p) == p.t \in {"fence", "fencejson"}

TrimPieces(ps) ==
    LET idx == {i \in 1..Len(ps) : ps[i].t # "space"}
    IN  IF idx = {} THEN <<>>
        ELSE SubSeq(ps, CHOOSE i \in idx : \A j \in idx : i <= j,
                        CHOOSE i \in idx : \A j \in idx : i >= j)

\* aiResponse.match(/```json\s*([\s\S]*?)\s*```/) when json, else
\* aiResponse.match(/```\s*([\s\S]*?)\s*```/): [found, group]
MatchFence(ps, json) ==
    LET opens == {i \in 1..Len(ps) :
                     /\ IF json THEN ps[i].t = "fencejson" ELSE IsFence(ps[i])
                     /\ \E j \in (i + 1)..Len(ps) : IsFence(ps[j])}
    IN  IF opens = {} THEN [found |-> FALSE, group |-> <<>>]
        ELSE LET i == CHOOSE x \in opens : \A y \in opens : x <= y
                 closes == {j \in (i + 1)..Len(ps) : IsFence(ps[j])}
                 j == CHOOSE x \in closes : \A y \in closes : x <= y
                 inner == SubSeq(ps, i + 1, j - 1)
             IN  [found |-> TRUE,
                  group |-> TrimPieces(IF ~json /\ ps[i].t = "fencejson"
                                       THEN <<Piece("text")>> \o inner ELSE inner)]

\* the text handed to JSON.parse
ExtractJsonString(ps) ==
    LET m1 == MatchFence(ps, TRUE)
        m2 == MatchFence(ps, FALSE)
        lb == {i \in 1..Len(ps) : ps[i].t = "lbrace"}
        rb == {i \in 1..Len(ps) : ps[i].t = "rbrace"}
    IN  IF m1.found THEN TrimPieces(m1.group)
        ELSE IF m2.found THEN TrimPieces(m2.group)
        ELSE IF lb # {} /\ rb # {}
             THEN LET first == CHOOSE x \in lb : \A y \in lb : x <= y
                      last == CHOOSE x \in rb : \A y \in rb : x >= y
                  IN  TrimPieces(IF last > first THEN SubSeq(ps, first, last) ELSE ps)
             ELSE TrimPieces(ps)

NoMembers == [weeks |-> Undefined]

\* JSON.parse: [ok, value]; ok is FALSE for a SyntaxError
JSONParse(ps) ==
    LET toks == SelectSeq(ps, LAMBDA p : p.t # "space")
    IN  IF Len(toks) = 3 /\ toks[1].t = "lbrace" /\ toks[2].t = "members"
                         /\ toks[3].t = "rbrace"
        THEN [ok |-> TRUE, value |-> Obj(toks[2].v)]
        ELSE IF Len(toks) = 2 /\ toks[1].t = "lbrace" /\ toks[2].t = "rbrace"
        THEN [ok |-> TRUE, value |-> Obj(NoMembers)]
        ELSE IF Len(toks) = 1 /\ toks[1].t = "scalar"
        THEN [ok |-> TRUE, value |-> toks[1].v]
        ELSE [ok |-> FALSE, value |-> Undefined]

Week(week, topics, practice, assessment, project) ==
    Obj([week |-> week, topics |-> topics, practice |-> practice,
         assessment |-> assessment, project |-> project])

Text(name) == Str(<<name>>)

fallbackPlan ==
    [weeks |-> <<
        Week(Num(1), Arr(<<Text("Basic concepts and fundamentals")>>),
             Arr(<<Text("Hands-on exercises and tutorials")>>),
             Text("Knowledge check quiz"), Text("Simple introductory project")),
        Week(Num(2), Arr(<<Text("Intermediate concepts and techniques")>>),
             Arr(<<Text("Practical exercises and case studies")>>),
             Text("Skills assessment"), Text("Intermediate level project")),
        Week(Num(3), Arr(<<Text("Advanced concepts and best practices")>>),
             Arr(<<Text("Complex exercises and real-world scenarios")>>),
             Text("Advanced skills test"), Text("Advanced level project")),
        Week(Num(4), Arr(<<Text("Integration and real-world application")>>),
             Arr(<<Text("Final project preparation")>>),
             Text("Final project review"), Text("Capstone project")) >>]

\* plan.weeks.push({ week: plan.weeks.length + 1 })
PaddingWeek(n) == Week(Num(n), Undefined, Undefined, Undefined, Undefined)

\* padding to 4 entries or slice(0, 4)
FourWeeks(weeks) ==
    [i \in 1..4 |-> IF i <= Len(weeks) THEN weeks[i] ELSE PaddingWeek(i)]

\* the forEach body on an entry that is an object
RepairWeekObject(w, index) ==
    [ week |-> IF Falsy(w.week) \/ w.week # Num(index) THEN Num(index) ELSE w.week,
      topics |-> IF Falsy(w.topics) \/ w.topics.t # "array"
                 THEN Arr(<<Text("Topics to be determined")>>) ELSE w.topics,
      practice |-> IF Falsy(w.practice) \/ w.practice.t # "array"
                   THEN Arr(<<Text("Practice activities to be determined")>>)
                   ELSE w.practice,
      assessment |-> IF Falsy(w.assessment)
                     THEN Text("Assessment to be determined") ELSE w.assessment,
      project |-> IF Falsy(w.project)
                  THEN Text("Project to be determined") ELSE w.project ]

\* the forEach body: a property write on a primitive entry (a number, a
\* string) is ignored in a module that is not in strict mode, so the
\* entry stays as it is; a null entry throws and is handled by the caller
RepairWeek(entry, index) ==
    IF entry.t = "object" THEN Obj(RepairWeekObject(entry.v, index)) ELSE entry

\* aiResponse: Str(sequence of pieces), or Undefined
parseLearningPlan(aiResponse) ==
    IF aiResponse.t # "string" THEN fallbackPlan
    ELSE LET parsed == JSONParse(ExtractJsonString(aiResponse.v))
             plan == parsed.value
         IN  IF ~parsed.ok \/ plan.t # "object" THEN fallbackPlan
             ELSE IF Falsy(plan.v.weeks) \/ plan.v.weeks.t # "array" THEN fallbackPlan
             ELSE LET weeks == FourWeeks(plan.v.weeks.v)
                  IN  IF \E i \in 1..4 : weeks[i].t = "null" THEN fallbackPlan
                      ELSE [weeks |-> [i \in 1..4 |-> RepairWeek(weeks[i], i)]]

----------------------------------------------------------------------------
(* Strict validation and normalization of a POST /api/recommend body *)

\* profile.<f>: a property read on an array gives undefined
Field(profile, f) == IF profile.t = "object" THEN profile.v[f] ELSE Undefined

\* the profile checks of validateRequest stopping at the first violation
ProfileErrorsFailFast(profile) ==
    LET name == Field(profile, "name")
        education == Field(profile, "education")
        skills == Field(profile, "skills")
        interests == Field(profile, "interests")
        weeklyTime == Field(profile, "weeklyTime")
        budget == Field(profile, "budget")
        language == Field(profile, "language")
    IN  IF Falsy(name) \/ name.t # "string" \/ Len(Trim(name.v)) < 2
        THEN <<"name must be at least 2 characters long">>
        ELSE IF Falsy(education) \/ ~IncludesValue(validEducation, education)
        THEN <<"education must be one of: 12th, Diploma, UG, PG, Other">>
        ELSE IF Falsy(skills) \/ skills.t # "array" \/ Len(skills.v) = 0
        THEN <<"skills must be a non-empty array">>
        ELSE IF Falsy(interests) \/ interests.t # "array" \/ Len(interests.v) = 0
        THEN <<"interests must be a non-empty array">>
        ELSE IF Falsy(weeklyTime) \/ weeklyTime.t # "number"
                \/ weeklyTime.v < WeeklyTimeMin \/ weeklyTime.v > WeeklyTimeMax
        THEN <<"weeklyTime must be a number between 1 and 40">>
        ELSE IF Falsy(budget) \/ ~IncludesValue(validBudget, budget)
        THEN <<"budget must be one of: free, low, any">>
        ELSE IF Falsy(language) \/ ~IncludesValue(validLanguage, language)
        THEN <<"language must be one of: en, hi">>
        ELSE <<>>

\* the profile checks of validateRequest, in order
ProfileErrors(profile) ==
    LET name == Field(profile, "name")
        education == Field(profile, "education")
        skills == Field(profile, "skills")
        interests == Field(profile, "interests")
        weeklyTime == Field(profile, "weeklyTime")
        budget == Field(profile, "budget")
        language == Field(profile, "language")
    IN  (IF Falsy(name) \/ name.t # "string" \/ Len(Trim(name.v)) < 2
         THEN <<"name must be at least 2 characters long">> ELSE <<>>)
        \o (IF Falsy(education) \/ ~IncludesValue(validEducation, education)
            THEN <<"education must be one of: 12th, Diploma, UG, PG, Other">> ELSE <<>>)
        \o (IF Falsy(skills) \/ skills.t # "array" \/ Len(skills.v) = 0
            THEN <<"skills must be a non-empty array">> ELSE <<>>)
        \o (IF Falsy(interests) \/ interests.t # "array" \/ Len(interests.v) = 0
            THEN <<"interests must be a non-empty array">> ELSE <<>>)
        \o (IF Falsy(weeklyTime) \/ weeklyTime.t # "number"
               \/ weeklyTime.v < WeeklyTimeMin \/ weeklyTime.v > WeeklyTimeMax
            THEN <<"weeklyTime must be a number between 1 and 40">> ELSE <<>>)
        \o (IF Falsy(budget) \/ ~IncludesValue(validBudget, budget)
            THEN <<"budget must be one of: free, low, any">> ELSE <<>>)
        \o (IF Falsy(language) \/ ~IncludesValue(validLanguage, language)
            THEN <<"language must be one of: en, hi">> ELSE <<>>)

\* body: [uid, profile]; the result is [isValid, errors]
validateRequest(body) ==
    LET uidErrors == IF Falsy(body.uid) \/ body.uid.t # "string"
                     THEN <<"uid is required and must be a string">> ELSE <<>>
    IN  IF Falsy(body.profile) \/ body.profile.t \notin {"object", "array"}
        THEN [isValid |-> FALSE,
              errors |-> uidErrors \o <<"profile is required and must be an object">>]
        ELSE LET errors == uidErrors \o ProfileErrors(body.profile)
             IN  [isValid |-> errors = <<>>, errors |-> errors]

\* [threw, profile]: interest.trim() throws a TypeError on an entry that is
\* not a string; called on a profile that passed validateRequest
normalizeProfile(profile) ==
    LET p == profile.v
        skills == SelectSeq(CanonicalNames(p.skills.v), LAMBDA skill : Len(skill) > 0)
        interests == SelectSeq([i \in 1..Len(p.interests.v) |->
                                   IF IsString(p.interests.v[i])
                                   THEN ToLowerCase(Trim(p.interests.v[i].v)) ELSE <<>>],
                               LAMBDA interest : Len(interest) > 0)
    IN  [ threw |-> \E i \in 1..Len(p.interests.v) : ~IsString(p.interests.v[i]),
          profile |->
            [ name |-> Str(Trim(p.name.v)),
              education |-> p.education,
              skills |-> Arr([i \in 1..Len(skills) |-> Str(skills[i])]),
              interests |-> Arr([i \in 1..Len(interests) |-> Str(interests[i])]),
              weeklyTime |-> Num(Min(Max(p.weeklyTime.v, WeeklyTimeMin), WeeklyTimeMax)),
              budget |-> p.budget,
              language |-> p.language ] ]

----------------------------------------------------------------------------
(* Initial states *)

\* A pure function is called once, on any input of its bounded input set.
NoCall == [fn |-> "none", in |-> <<>>, out |-> <<>>]

HandlerIdle ==
    /\ pc = "off"
    /\ env = [apiKey |-> FALSE]
    /\ req = Undefined
    /\ resp = [status |-> 0]
    /\ gen = <<>>
    /\ store = <<>>

InitPure == call = NoCall /\ HandlerIdle

----------------------------------------------------------------------------
(* The canonicalizer *)

CallCanonicalize ==
    /\ call = NoCall
    /\ \E name \in {Str(s) : s \in SeqsUpTo(Chars, MaxNameLen)} \cup {Num(7), Undefined} :
           /\ call' = [fn |-> "canonicalizeSkillName", in |-> name,
                       out |-> canonicalizeSkillName(name)]
           /\ UNCHANGED hvars

SpecCanon == InitPure /\ [][CallCanonicalize]_vars

\* C1: canonicalizing the result of canonicalizeSkillName again gives the
\* same result, for every input string.
C1_CanonicalizeIdempotent ==
    call.fn = "canonicalizeSkillName" =>
        canonicalizeSkillName(Str(call.out)) = call.out

----------------------------------------------------------------------------
(* The similarity engine, called on bounded skill lists *)

RawSkills == {Str(<<"a">>), Str(<<"A">>), Str(<<"b">>), Str(<<"+">>)}

RoleSkillChoices ==
    { [name |-> Str(<<"a">>), weight |-> Num(10)],
      [name |-> Str(<<"b">>), weight |-> Num(5)],
      [name |-> Str(<<"c">>), weight |-> Undefined] }

UserSkillArgs == {Arr(l) : l \in SeqsUpTo(RawSkills, MaxUserSkills)} \cup {Undefined}

RoleSkillArgs == {Arr(l) : l \in SeqsUpTo(RoleSkillChoices, MaxRoleSkills)} \cup {Undefined}

CallFitScore ==
    /\ call = NoCall
    /\ \E userSkills \in UserSkillArgs, roleSkills \in RoleSkillArgs :
           /\ call' = [fn |-> "calculateFitScore",
                       in |-> [userSkills |-> userSkills, roleSkills |-> roleSkills],
                       out |-> calculateFitScore(userSkills, roleSkills)]
           /\ UNCHANGED hvars

CallOverlapRatio ==
    /\ call = NoCall
    /\ \E userSkills \in UserSkillArgs, roleSkills \in RoleSkillArgs :
           /\ call' = [fn |-> "calculateOverlapRatio",
                       in |-> [userSkills |-> userSkills, roleSkills |-> roleSkills],
                       out |-> calculateOverlapRatio(userSkills, roleSkills)]
           /\ UNCHANGED hvars

CallGapAndOverlapSkills ==
    /\ call = NoCall
    /\ \E userSkills \in UserSkillArgs \ {Undefined},
          roleSkills \in RoleSkillArgs \ {Undefined} :
           /\ call' = [fn |-> "calculateGapSkills/calculateOverlapSkills",
                       in |-> [userSkills |-> userSkills, roleSkills |-> roleSkills],
                       out |-> [gap |-> calculateGapSkills(userSkills, roleSkills),
                                overlap |-> calculateOverlapSkills(userSkills, roleSkills)]]
           /\ UNCHANGED hvars

SpecScore ==
    InitPure /\ [][CallFitScore \/ CallOverlapRatio \/ CallGapAndOverlapSkills]_vars

\* C4: the overlap ratio is the number of canonical role skills that occur
\* among the canonical user skills over the number of canonical role
\* skills, is 0 when either list is empty, and lies in [0,1].
C4_OverlapRatioOfRoleSkills ==
    call.fn = "calculateOverlapRatio" =>
        LET U == call.in.userSkills
            R == call.in.roleSkills
        IN  /\ call.out.num >= 0 /\ call.out.num <= call.out.den
            /\ IF EmptyOrAbsent(U) \/ EmptyOrAbsent(R)
               THEN call.out.num = 0
               ELSE LET userNames == Range(CanonicalNames(U.v))
                    IN  call.out.num * Len(R.v) =
                        call.out.den *
                            Len(SelectSeq(RoleNames(R.v), LAMBDA k : k \in userNames))

\* C5: the overlap skills and the gap skills are disjoint sets whose union
\* is the set of canonical skill names of the role.
C5_OverlapGapPartition ==
    call.fn = "calculateGapSkills/calculateOverlapSkills" =>
        /\ Range(call.out.overlap) \cap Range(call.out.gap) = {}
        /\ Range(call.out.overlap) \cup Range(call.out.gap) =
           Range(RoleNames(call.in.roleSkills.v))

\* C5 witness: a call whose overlap and gap are both non-empty and whose
\* user list holds two spellings of one canonical skill.
C5_Witness ==
    /\ call.fn = "calculateGapSkills/calculateOverlapSkills"
    /\ call.out.overlap # <<>> /\ call.out.gap # <<>>
    /\ {Str(<<"a">>), Str(<<"A">>)} \subseteq Range(call.in.userSkills.v)

----------------------------------------------------------------------------
(* validateAndCleanProfile, called on bounded profiles *)

LongSkill == Str([i \in 1..(SkillLengthCap + 2) |-> "a"])

ListEntries == {Str(<<"a">>), Str(<<"+">>), Num(7), LongSkill}

\* the array of n entries that repeats the pattern pat
Repeat(pat, n) == [i \in 1..n |-> pat[((i - 1) % Len(pat)) + 1]]

SkillsInputs ==
    {Arr(Repeat(pat, n)) : pat \in [1..1 -> ListEntries] \cup [1..2 -> ListEntries],
                           n \in 0..MaxListLen} \cup {Undefined}

InterestsInputs ==
    {Arr(Repeat(pat, n)) : pat \in [1..1 -> ListEntries], n \in 0..MaxListLen}
        \cup {Undefined}

EducationInputs == {Str(<<"U", "G">>), Str(<<"O", "t", "h", "e", "r">>),
                    Str(<<"P", "h", "D">>), Num(7), Undefined}
BudgetInputs == {Str(<<"l", "o", "w">>), Str(<<"f", "r", "e", "e">>),
                 Str(<<"h", "i", "g", "h">>), Undefined}
LanguageInputs == {Str(<<"h", "i">>), Str(<<"e", "n">>), Str(<<"f", "r">>), Undefined}
WeeklyTimeInputs == {Num(n) : n \in {-3, 0, 1, 25, 40, 41}} \cup {Str(<<"5", "0">>), Undefined}

SomeName == Str(<<"A", "b">>)

CallCleanLists ==
    /\ call = NoCall
    /\ \E skills \in SkillsInputs, interests \in InterestsInputs :
           LET profile == [name |-> SomeName, education |-> Str(<<"U", "G">>),
                           skills |-> skills, interests |-> interests,
                           weeklyTime |-> Num(25), budget |-> Str(<<"l", "o", "w">>),
                           language |-> Str(<<"h", "i">>)]
           IN  /\ call' = [fn |-> "validateAndCleanProfile", in |-> profile,
                           out |-> validateAndCleanProfile(profile)]
               /\ UNCHANGED hvars

CallCleanScalars ==
    /\ call = NoCall
    /\ \E education \in EducationInputs, budget \in BudgetInputs,
          language \in LanguageInputs, weeklyTime \in WeeklyTimeInputs :
           LET profile == [name |-> SomeName, education |-> education,
                           skills |-> Arr(<<Str(<<"a">>)>>),
                           interests |-> Arr(<<Str(<<"b">>)>>),
                           weeklyTime |-> weeklyTime, budget |-> budget,
                           language |-> language]
           IN  /\ call' = [fn |-> "validateAndCleanProfile", in |-> profile,
                           out |-> validateAndCleanProfile(profile)]
               /\ UNCHANGED hvars

SpecProfile == InitPure /\ [][CallCleanLists \/ CallCleanScalars]_vars

C19_WeeklyTimeClamped ==
    call.fn = "validateAndCleanProfile" =>
        /\ call.out.weeklyTime.t = "number"
        /\ call.out.weeklyTime.v >= 1
        /\ call.out.weeklyTime.v <= 40
        /\ call.in.weeklyTime.t = "number" =>
               call.out.weeklyTime.v =
                   IF call.in.weeklyTime.v < 1 THEN 1
                   ELSE IF call.in.weeklyTime.v > 40 THEN 40
                   ELSE call.in.weeklyTime.v

----------------------------------------------------------------------------
(* getTopRoleMatches, called on bounded profiles and catalogs *)

\* roles.json: the entries a catalog is made of
RoleChoices ==
    { [roleId |-> "r1", title |-> <<"A", "b">>, sector |-> <<"a">>,
       skills |-> << [name |-> Str(<<"a">>), weight |-> Num(10)],
                     [name |-> Str(<<"b">>), weight |-> Num(5)] >>],
      [roleId |-> "r2", title |-> <<"b", "b">>, sector |-> <<"b">>,
       skills |-> << [name |-> Str(<<"b">>), weight |-> Num(10)],
                     [name |-> Str(<<"c">>), weight |-> Undefined] >>],
      [roleId |-> "r3", title |-> <<"A", "b">>, sector |-> <<"a">>,
       skills |-> << [name |-> Str(<<"a">>), weight |-> Num(10)],
                     [name |-> Str(<<"b">>), weight |-> Num(5)] >>],
      [roleId |-> "r4", title |-> <<"c">>, sector |-> <<"c">>,
       skills |-> << [name |-> Str(<<"a">>), weight |-> Num(10)] >>] }

\* the catalogs: up to MaxCatalog distinct roles in any order
Catalogs ==
    {c \in SeqsUpTo(RoleChoices, MaxCatalog) :
        \A i, j \in 1..Len(c) : i # j => c[i].roleId # c[j].roleId}

RankSkills == {Str(<<"a">>), Str(<<"b">>), Str(<<"c">>)}

RankInterests == {Arr(<<>>), Arr(<<Str(<<"a">>)>>), Arr(<<Str(<<"c">>)>>)}

CallGetTopRoleMatches ==
    /\ call = NoCall
    /\ \E roles \in Catalogs, skills \in SeqsUpTo(RankSkills, MaxRankSkills),
          interests \in RankInterests, count \in 0..MaxCatalog :
           LET profile == [skills |-> Arr(skills), interests |-> interests]
           IN  /\ call' = [fn |-> "getTopRoleMatches",
                           in |-> [roles |-> roles, profile |-> profile, count |-> count],
                           out |-> getTopRoleMatches(roles, profile, count)]
               /\ UNCHANGED hvars

SpecRank == InitPure /\ [][CallGetTopRoleMatches]_vars

\* the position of role roleId in the catalog
CatalogIndex(roles, roleId) == CHOOSE i \in 1..Len(roles) : roles[i].roleId = roleId

\* C3: the blended score of every role match is an integer in 0..100, also
\* for a profile whose skill list repeats a token.
C3_BlendedScoreRange ==
    call.fn = "getTopRoleMatches" =>
        \A i \in 1..Len(call.out) : call.out[i].score \in 0..100

\* C8: at most K matches, in non-increasing order of score, roles of equal
\* score in catalog order.
C8_TopMatchesOrdered ==
    call.fn = "getTopRoleMatches" =>
        /\ Len(call.out) <= call.in.count
        /\ \A i, j \in 1..Len(call.out) :
               i < j =>
                   /\ call.out[i].score >= call.out[j].score
                   /\ call.out[i].score = call.out[j].score =>
                          CatalogIndex(call.in.roles, call.out[i].roleId) <
                          CatalogIndex(call.in.roles, call.out[j].roleId)

\* C8 witness: a ranking cut to K roles, fewer than the catalog has, that
\* holds two roles of equal positive score.
C8_Witness ==
    /\ call.fn = "getTopRoleMatches"
    /\ Len(call.out) = call.in.count /\ call.in.count < Len(call.in.roles)
    /\ \E i \in 1..(Len(call.out) - 1) :
           /\ call.out[i].score = call.out[i + 1].score
           /\ call.out[i].score > 0

----------------------------------------------------------------------------
(* parseLearningPlan, called on bounded AI responses *)

GoodWeek1 == Week(Num(1), Arr(<<Text("t")>>), Arr(<<Text("p")>>), Text("a"), Text("j"))

\* week 2 with an empty topics array, practice that is no array, an empty
\* assessment and no project
OddWeek2 == Week(Num(2), Arr(<<>>), Text("p"), Str(<<>>), Undefined)

WeekEntries == {GoodWeek1, OddWeek2, PaddingWeek(9), Num(7), Null}

WeeksValues ==
    {Arr(w) : w \in SeqsUpTo(WeekEntries, MaxWeeks)} \cup {Undefined, Text("none")}

SomePlan == Members([weeks |-> Arr(<<GoodWeek1, OddWeek2>>)])

Pieces ==
    {Piece("fencejson"), Piece("fence"), Piece("lbrace"), Piece("rbrace"),
     Piece("text"), SomePlan}

\* the weeks value in prose, in a fenced block and in a json block
Wrappings(weeks) ==
    { <<Piece("text"), Piece("lbrace"), Members([weeks |-> weeks]), Piece("rbrace"),
        Piece("text")>>,
      <<Piece("fence"), Piece("space"), Piece("lbrace"), Members([weeks |-> weeks]),
        Piece("rbrace"), Piece("space"), Piece("fence")>> }

CallParseText ==
    /\ call = NoCall
    /\ \E aiResponse \in {Str(ps) : ps \in SeqsUpTo(Pieces, MaxTextLen)}
                             \cup {Undefined, Str(<<Scalar(Null)>>),
                                   Str(<<Scalar(Num(7))>>)} :
           /\ call' = [fn |-> "parseLearningPlan", in |-> aiResponse,
                       out |-> parseLearningPlan(aiResponse)]
           /\ UNCHANGED hvars

CallParseWeeks ==
    /\ call = NoCall
    /\ \E weeks \in WeeksValues :
           \E ps \in Wrappings(weeks) :
               /\ call' = [fn |-> "parseLearningPlan", in |-> Str(ps),
                           out |-> parseLearningPlan(Str(ps))]
               /\ UNCHANGED hvars

SpecPlan == InitPure /\ [][CallParseText \/ CallParseWeeks]_vars

\* C2: the plan returned for any input has exactly 4 week entries, the
\* i-th with week field i.
C2_FourNumberedWeeks ==
    call.fn = "parseLearningPlan" =>
        /\ Len(call.out.weeks) = 4
        /\ \A i \in 1..4 :
               /\ call.out.weeks[i].t = "object"
               /\ call.out.weeks[i].v.week = Num(i)

\* C17: every week of every returned plan has a non-empty topics sequence,
\* a non-empty practice sequence, and a non-empty assessment and project
\* string.
C17_WeeksFilled ==
    call.fn = "parseLearningPlan" =>
        \A i \in 1..Len(call.out.weeks) :
            LET w == call.out.weeks[i]
            IN  /\ w.t = "object"
                /\ w.v.topics.t = "array" /\ Len(w.v.topics.v) >= 1
                /\ w.v.practice.t = "array" /\ Len(w.v.practice.v) >= 1
                /\ w.v.assessment.t = "string" /\ Len(w.v.assessment.v) >= 1
                /\ w.v.project.t = "string" /\ Len(w.v.project.v) >= 1

----------------------------------------------------------------------------
(* POST /api/recommend: one request from arrival to response.  pc is the   *)
(* await the handler is suspended at: "fetch" (an attempt of callGeminiAPI *)
(* is in flight), "backoff" (the timer between two attempts), "trend" (the *)
(* read of the trend snapshot), "save" (the write of the result).          *)

\* a retry budget of four attempts
maxRetriesFour == 3 + 1

\* the retry policy of callGeminiAPI
maxRetries == 3
BackoffBase == 1000
BackoffCap == 8000
TopCount == 3

RoleById(id) == CHOOSE r \in RoleChoices : r.roleId = id

\* Object.values(roles) of the deployed catalog
ServerCatalog == <<RoleById("r1"), RoleById("r2"), RoleById("r3"), RoleById("r4")>>

Some(s) == Str(<<s>>)

UidInputs == {Some("u"), Undefined, Num(7)}
NameInputs == {Str(<<"A", "b">>), Str(<<" ", "a", " ">>), Undefined, Num(7)}
EducationFields == {Str(<<"U", "G">>), Str(<<"P", "h", "D">>), Undefined}
SkillsFields ==
    {Arr(<<Some("a"), Num(7)>>), Arr([i \in 1..(SkillsCap + 1) |-> Some("b")]),
     Arr(<<>>), Some("a"), Undefined}
InterestsFields == {Arr(<<Some("a")>>), Arr(<<Num(7)>>), Arr(<<>>), Undefined}
WeeklyTimeFields == {Num(10), Num(41), Some("9"), Undefined}
BudgetFields == {Str(<<"f", "r", "e", "e">>), Str(<<"h", "i", "g", "h">>), Undefined}
LanguageFields == {Str(<<"h", "i">>), Str(<<"f", "r">>), Undefined}

Profiles ==
    { Obj([name |-> n, education |-> e, skills |-> s, interests |-> i,
           weeklyTime |-> w, budget |-> b, language |-> l]) :
        n \in NameInputs, e \in EducationFields, s \in SkillsFields,
        i \in InterestsFields, w \in WeeklyTimeFields, b \in BudgetFields,
        l \in LanguageFields }

\* req.body
Bodies ==
    {[uid |-> u, profile |-> p] :
        u \in UidInputs, p \in Profiles \cup {Undefined, Some("p"), Arr(<<>>)}}

\* the messages thrown by an attempt of callGeminiAPI: status 400, 429, 500,
\* a rejected fetch, an aborted fetch
AiErrors ==
    {"Invalid request to AI service", "AI service quota exceeded",
     "AI service internal error", "fetch failed", "This operation was aborted"}

\* data.candidates[0].content.parts[0].text of a successful attempt
AiTexts ==
    {Str(<<>>),
     Str(<<Piece("fencejson"), Piece("lbrace"), SomePlan, Piece("rbrace"),
           Piece("fence")>>)}

NoRequest == [uid |-> Undefined, profile |-> Undefined]

Respond(status, error, details, recommendations) ==
    [status |-> status, error |-> error, details |-> details,
     recommendations |-> recommendations]

NoResponse == Respond(0, "", <<>>, <<>>)

GenIdle ==
    [profile |-> Undefined, topRoles |-> <<>>, idx |-> 0, phase |-> "none",
     attempt |-> 0, lastError |-> "none", delay |-> 0, explanation |-> Undefined,
     learningPlan |-> Undefined, recommendations |-> <<>>, log |-> <<>>]

Init ==
    /\ call = NoCall
    /\ pc = "idle"
    /\ env \in {[apiKey |-> k, roles |-> ServerCatalog] : k \in BOOLEAN}
    /\ req = NoRequest
    /\ resp = NoResponse
    /\ gen = GenIdle
    /\ store = <<>>

\* error.message.includes(word), over the messages that are thrown here
MessageIncludes(message, word) ==
    CASE word = "API key" -> FALSE
      [] word = "quota" -> message = "AI service quota exceeded"
      [] word = "timeout" -> FALSE

\* the catch block of the handler: the response for a thrown message
CatchResponse(message) ==
    IF MessageIncludes(message, "API key")
    THEN Respond(500, "AI service configuration error", <<>>, <<>>)
    ELSE IF MessageIncludes(message, "quota")
    THEN Respond(429, "Service quota exceeded. Please try again later.", <<>>, <<>>)
    ELSE IF MessageIncludes(message, "timeout")
    THEN Respond(408, "Request timeout. Please try again.", <<>>, <<>>)
    ELSE Respond(500, "Internal server error", <<>>, <<>>)

\* the handler reading the key before it validates
ReceiveConfigFirst ==
    /\ pc = "idle"
    /\ \E body \in Bodies :
        LET validation == validateRequest(body)
            normalized == normalizeProfile(body.profile)
            topRoles == getTopRoleMatches(env.roles, normalized.profile, TopCount)
        IN  /\ req' = body
            /\ IF ~env.apiKey
               THEN /\ resp' = Respond(500, "AI service not configured", <<>>, <<>>)
                    /\ pc' = "done"
                    /\ gen' = gen
               ELSE IF ~validation.isValid
               THEN /\ resp' = Respond(400, "Invalid request", validation.errors, <<>>)
                    /\ pc' = "done"
                    /\ gen' = gen
               ELSE IF normalized.threw
               THEN /\ resp' = CatchResponse("interest.trim is not a function")
                    /\ pc' = "done"
                    /\ gen' = gen
               ELSE IF ~env.apiKey
               THEN /\ resp' = Respond(500, "AI service not configured", <<>>, <<>>)
                    /\ pc' = "done"
                    /\ gen' = gen
               ELSE IF topRoles = <<>>
               THEN /\ resp' = Respond(500, "Failed to generate recommendations",
                                       <<>>, <<>>)
                    /\ pc' = "done"
                    /\ gen' = [gen EXCEPT !.profile = normalized.profile]
               ELSE /\ resp' = resp
                    /\ pc' = "fetch"
                    /\ gen' = [gen EXCEPT !.profile = normalized.profile,
                                          !.topRoles = topRoles, !.idx = 1,
                                          !.phase = "explain", !.attempt = 1]
            /\ UNCHANGED <<call, env, store>>

\* the handler from its first line to its first await or response
Receive ==
    /\ pc = "idle"
    /\ \E body \in Bodies :
        LET validation == validateRequest(body)
            normalized == normalizeProfile(body.profile)
            topRoles == getTopRoleMatches(env.roles, normalized.profile, TopCount)
        IN  /\ req' = body
            /\ IF ~validation.isValid
               THEN /\ resp' = Respond(400, "Invalid request", validation.errors, <<>>)
                    /\ pc' = "done"
                    /\ gen' = gen
               ELSE IF normalized.threw
               THEN /\ resp' = CatchResponse("interest.trim is not a function")
                    /\ pc' = "done"
                    /\ gen' = gen
               ELSE IF ~env.apiKey
               THEN /\ resp' = Respond(500, "AI service not configured", <<>>, <<>>)
                    /\ pc' = "done"
                    /\ gen' = gen
               ELSE IF topRoles = <<>>
               THEN /\ resp' = Respond(500, "Failed to generate recommendations",
                                       <<>>, <<>>)
                    /\ pc' = "done"
                    /\ gen' = [gen EXCEPT !.profile = normalized.profile]
               ELSE /\ resp' = resp
                    /\ pc' = "fetch"
                    /\ gen' = [gen EXCEPT !.profile = normalized.profile,
                                          !.topRoles = topRoles, !.idx = 1,
                                          !.phase = "explain", !.attempt = 1]
            /\ UNCHANGED <<call, env, store>>

\* the loop leaving at the first role whose call failed
AfterRoleStopAtFailure(g) ==
    IF g.idx < Len(g.topRoles) /\ g.log[Len(g.log)].ok
    THEN /\ gen' = [g EXCEPT !.idx = g.idx + 1, !.phase = "explain", !.attempt = 1,
                             !.lastError = "none", !.delay = 0,
                             !.explanation = Undefined, !.learningPlan = Undefined]
         /\ pc' = "fetch"
         /\ resp' = resp
    ELSE /\ gen' = [g EXCEPT !.phase = "none"]
         /\ IF g.recommendations = <<>>
            THEN /\ resp' = Respond(500, "Failed to generate recommendations",
                                    <<>>, <<>>)
                 /\ pc' = "done"
            ELSE /\ resp' = resp
                 /\ pc' = "save"

\* the loop with a continuation that saves and answers whatever was generated
AfterRoleNoEmptyCheck(g) ==
    IF g.idx < Len(g.topRoles)
    THEN /\ gen' = [g EXCEPT !.idx = g.idx + 1, !.phase = "explain", !.attempt = 1,
                             !.lastError = "none", !.delay = 0,
                             !.explanation = Undefined, !.learningPlan = Undefined]
         /\ pc' = "fetch"
         /\ resp' = resp
    ELSE /\ gen' = [g EXCEPT !.phase = "none"]
         /\ resp' = resp
         /\ pc' = "save"

\* the for loop of generateRecommendations moving past role g.idx, and the
\* handler's continuation once the loop has ended
AfterRole(g) ==
    IF g.idx < Len(g.topRoles)
    THEN /\ gen' = [g EXCEPT !.idx = g.idx + 1, !.phase = "explain", !.attempt = 1,
                             !.lastError = "none", !.delay = 0,
                             !.explanation = Undefined, !.learningPlan = Undefined]
         /\ pc' = "fetch"
         /\ resp' = resp
    ELSE /\ gen' = [g EXCEPT !.phase = "none"]
         /\ IF g.recommendations = <<>>
            THEN /\ resp' = Respond(500, "Failed to generate recommendations",
                                    <<>>, <<>>)
                 /\ pc' = "done"
            ELSE /\ resp' = resp
                 /\ pc' = "save"

\* the console line of a call of callGeminiAPI that has returned or thrown
Completed(g, ok, error) ==
    Append(g.log, [role |-> g.topRoles[g.idx].roleId, phase |-> g.phase,
                   ok |-> ok, error |-> error])

\* an attempt of callGeminiAPI returns text
AiSuccess ==
    /\ pc = "fetch"
    /\ \E text \in AiTexts :
        IF gen.phase = "explain"
        THEN /\ gen' = [gen EXCEPT !.explanation = text, !.phase = "plan",
                                   !.attempt = 1, !.lastError = "none",
                                   !.delay = 0,
                                   !.log = Completed(gen, TRUE, "none")]
             /\ pc' = "fetch"
        ELSE /\ gen' = [gen EXCEPT !.learningPlan = parseLearningPlan(text),
                                   !.log = Completed(gen, TRUE, "none")]
             /\ pc' = "trend"
    /\ UNCHANGED <<call, env, req, resp, store>>

\* an explanation that failed for good being followed by the role's plan call
AiFailurePlanAnyway ==
    /\ pc = "fetch"
    /\ \E message \in AiErrors :
        LET delay == Min(BackoffBase * 2 ^ (gen.attempt - 1), BackoffCap)
        IN  IF gen.attempt < maxRetries
            THEN /\ gen' = [gen EXCEPT !.lastError = message, !.delay = delay]
                 /\ pc' = "backoff"
                 /\ resp' = resp
            ELSE IF gen.phase = "explain"
            THEN /\ gen' = [gen EXCEPT !.phase = "plan", !.attempt = 1,
                                       !.lastError = "none", !.delay = 0,
                                       !.log = Completed(gen, FALSE, message)]
                 /\ pc' = "fetch"
                 /\ resp' = resp
            ELSE AfterRole([gen EXCEPT !.lastError = message,
                                       !.log = Completed(gen, FALSE, message)])
    /\ UNCHANGED <<call, env, req, store>>

\* an attempt of callGeminiAPI throws: wait and retry, or give up on the role
AiFailure ==
    /\ pc = "fetch"
    /\ \E message \in AiErrors :
        LET delay == Min(BackoffBase * 2 ^ (gen.attempt - 1), BackoffCap)
        IN  IF gen.attempt < maxRetries
            THEN /\ gen' = [gen EXCEPT !.lastError = message, !.delay = delay]
                 /\ pc' = "backoff"
                 /\ resp' = resp
            ELSE AfterRole([gen EXCEPT !.lastError = message,
                                       !.log = Completed(gen, FALSE, message)])
    /\ UNCHANGED <<call, env, req, store>>

\* the timer between two attempts fires
BackoffElapsed ==
    /\ pc = "backoff"
    /\ gen' = [gen EXCEPT !.attempt = gen.attempt + 1]
    /\ pc' = "fetch"
    /\ UNCHANGED <<call, env, req, resp, store>>

RECURSIVE Join(_)
Join(names) ==
    IF names = <<>> THEN <<>>
    ELSE IF Len(names) = 1 THEN names[1].v
    ELSE names[1].v \o <<", ">> \o Join(Tail(names))

\* the read of trends/role_<roleId> ends: a snapshot with a numeric
\* demandScore, one without, no snapshot, or a failed read
TrendLookup ==
    /\ pc = "trend"
    /\ \E outcome \in {"number", "other", "missing", "failed"} :
        LET role == gen.topRoles[gen.idx]
            recommendation ==
                [ roleId |-> role.roleId, title |-> role.title,
                  fitScore |-> calculateEnhancedFitScore(gen.profile.skills,
                                   Arr(role.skills), gen.profile.interests, Obj(role)),
                  demandScore |-> IF outcome = "number" THEN Num(70) ELSE Null,
                  why |-> IF Falsy(gen.explanation)
                          THEN Str(<<"Good match based on your ">>
                                   \o Join(gen.profile.skills.v) \o <<" skills.">>)
                          ELSE gen.explanation,
                  overlapSkills |-> role.overlapSkills,
                  gapSkills |-> role.gapSkills,
                  plan |-> gen.learningPlan ]
        IN  AfterRole([gen EXCEPT
                !.recommendations = Append(gen.recommendations, recommendation)])
    /\ UNCHANGED <<call, env, req, store>>

\* the write ends and a failure is passed on to the handler's catch
SaveSurfacingFailure ==
    /\ pc = "save"
    /\ \E saved \in BOOLEAN :
        /\ store' = IF saved
                    THEN Append(store, [userId |-> req.uid,
                                        recommendations |-> gen.recommendations])
                    ELSE store
        /\ resp' = IF saved THEN Respond(200, "", <<>>, gen.recommendations)
                   ELSE CatchResponse("write failed")
        /\ pc' = "done"
    /\ UNCHANGED <<call, env, req, gen>>

\* the write of saveRecommendationsToFirestore ends; a failure is swallowed
Save ==
    /\ pc = "save"
    /\ \E saved \in BOOLEAN :
        /\ store' = IF saved
                    THEN Append(store, [userId |-> req.uid,
                                        recommendations |-> gen.recommendations])
                    ELSE store
        /\ resp' = Respond(200, "", <<>>, gen.recommendations)
        /\ pc' = "done"
        /\ UNCHANGED <<call, env, req, gen>>

Next == Receive \/ AiSuccess \/ AiFailure \/ BackoffElapsed \/ TrendLookup \/ Save

Spec == Init /\ [][Next]_vars

Rules == {"uid", "name", "education", "skills", "interests", "weeklyTime",
          "budget", "language"}

RuleMessage ==
    [ uid |-> "uid is required and must be a string",
      name |-> "name must be at least 2 characters long",
      education |-> "education must be one of: 12th, Diploma, UG, PG, Other",
      skills |-> "skills must be a non-empty array",
      interests |-> "interests must be a non-empty array",
      weeklyTime |-> "weeklyTime must be a number between 1 and 40",
      budget |-> "budget must be one of: free, low, any",
      language |-> "language must be one of: en, hi" ]

\* whether the body meets the rule of one field
RuleMet(body, rule) ==
    LET v == IF rule = "uid" THEN body.uid ELSE Field(body.profile, rule)
    IN  CASE rule = "uid" -> v.t = "string" /\ Len(v.v) > 0
          [] rule = "name" -> v.t = "string" /\ Len(Trim(v.v)) >= 2
          [] rule = "education" -> v \in validEducation
          [] rule \in {"skills", "interests"} -> v.t = "array" /\ Len(v.v) >= 1
          [] rule = "weeklyTime" ->
                 v.t = "number" /\ v.v >= WeeklyTimeMin /\ v.v <= WeeklyTimeMax
          [] rule = "budget" -> v \in validBudget
          [] rule = "language" -> v \in validLanguage

ViolatedRules(body) == {rule \in Rules : ~RuleMet(body, rule)}

ProfilePresent(body) == body.profile.t \in {"object", "array"}

\* C9: when the profile object is present the 400 response lists one entry
\* for every violated rule, and the request is accepted only when no rule
\* is violated.
C9_EveryViolationListed ==
    (pc = "done" /\ ProfilePresent(req)) =>
        /\ (resp.status = 400) <=> (ViolatedRules(req) # {})
        /\ resp.status = 400 =>
               /\ Len(resp.details) = Cardinality(ViolatedRules(req))
               /\ Range(resp.details) = {RuleMessage[rule] : rule \in ViolatedRules(req)}

C9_Witness ==
    /\ pc = "done"
    /\ ProfilePresent(req)
    /\ resp.status = 400
    /\ Cardinality(ViolatedRules(req)) = Cardinality(Rules)
    /\ Len(resp.details) = Cardinality(Rules)

\* a list field with an entry that is not a string
HasNonStringEntry(v) == v.t = "array" /\ \E i \in 1..Len(v.v) : ~IsString(v.v[i])

ViolatesContract(body) ==
    \/ ~ProfilePresent(body)
    \/ ViolatedRules(body) # {}
    \/ HasNonStringEntry(Field(body.profile, "skills"))
    \/ HasNonStringEntry(Field(body.profile, "interests"))

\* C10: a request whose data violates the Profile contract is answered with
\* status 400.
C10_ContractViolationIs400 ==
    (pc = "done" /\ ViolatesContract(req)) => resp.status = 400

----------------------------------------------------------------------------
(* The orchestrator's loop *)

\* generateRecommendations has returned
Generated == pc \in {"save", "done"} /\ gen.topRoles # <<>> /\ gen.phase = "none"

CallOk(roleId, phase) ==
    \E i \in 1..Len(gen.log) :
        gen.log[i].role = roleId /\ gen.log[i].phase = phase /\ gen.log[i].ok

CallIssued(roleId, phase) ==
    \E i \in 1..Len(gen.log) : gen.log[i].role = roleId /\ gen.log[i].phase = phase

RoleIds(list) == [i \in 1..Len(list) |-> list[i].roleId]

\* C11: the returned list holds exactly the top-ranked roles whose
\* explanation call and plan call both succeeded, in ranking order, and the
\* explanation call of every top-ranked role was issued, whichever roles
\* failed before it.
C11_FailureIsolatedToRole ==
    Generated =>
        /\ RoleIds(gen.recommendations)
               = SelectSeq(RoleIds(gen.topRoles),
                           LAMBDA r : CallOk(r, "explain") /\ CallOk(r, "plan"))
        /\ \A i \in 1..Len(gen.topRoles) : CallIssued(gen.topRoles[i].roleId, "explain")

\* the plan call of the first role failed and the two later roles are returned
C11_Witness ==
    /\ Generated
    /\ CallOk(gen.topRoles[1].roleId, "explain")
    /\ CallIssued(gen.topRoles[1].roleId, "plan")
    /\ ~CallOk(gen.topRoles[1].roleId, "plan")
    /\ Len(gen.recommendations) = 2

\* no top-ranked role had both of its calls succeed
AllRolesFailed ==
    \A i \in 1..Len(gen.topRoles) :
        ~(CallOk(gen.topRoles[i].roleId, "explain")
          /\ CallOk(gen.topRoles[i].roleId, "plan"))

\* C12: when generation fails for every top-ranked role the answer is 500
\* 'Failed to generate recommendations' and nothing is persisted; every 200
\* response carries at least one recommendation.
C12_EmptyResultIs500 ==
    /\ (Generated /\ AllRolesFailed) =>
           /\ pc = "done"
           /\ resp.status = 500
           /\ resp.error = "Failed to generate recommendations"
           /\ store = <<>>
    /\ resp.status = 200 => Len(resp.recommendations) >= 1

\* every role failed, one of them at its plan call
C12_Witness ==
    /\ Generated
    /\ AllRolesFailed
    /\ resp.status = 500
    /\ \E i \in 1..Len(gen.topRoles) : CallOk(gen.topRoles[i].roleId, "explain")

\* every call of the request failed, each time with the given message
EveryCallFailedWith(message) ==
    /\ Generated
    /\ gen.log # <<>>
    /\ \A i \in 1..Len(gen.log) : ~gen.log[i].ok /\ gen.log[i].error = message

\* C13: when the AI calls of a request keep failing with quota-exceeded the
\* response status is 429, and when they keep failing with a timeout it is
\* 408.
C13_TransientStatusClass ==
    /\ EveryCallFailedWith("AI service quota exceeded") => resp.status = 429
    /\ EveryCallFailedWith("This operation was aborted") => resp.status = 408

\* C15: when at least one recommendation was generated the answer is 200
\* with the generated list, whether the write succeeded or failed.
C15_SaveIsBestEffort ==
    (pc = "done" /\ Generated /\ gen.recommendations # <<>>) =>
        /\ resp.status = 200
        /\ resp.recommendations = gen.recommendations
        /\ Len(store) <= 1
        /\ store # <<>> => store[1].recommendations = gen.recommendations

\* a 200 response after a failed write
C15_Witness ==
    /\ pc = "done"
    /\ Generated
    /\ gen.recommendations # <<>>
    /\ resp.status = 200
    /\ store = <<>>

----------------------------------------------------------------------------
(* The retry loop of callGeminiAPI *)

\* the step ends the current call of callGeminiAPI, successfully or not
CallEnds(ok) ==
    /\ Len(gen'.log) = Len(gen.log) + 1
    /\ gen'.log[Len(gen'.log)].ok = ok

\* C14: a call makes at most 3 attempts, returns at the first successful
\* attempt, waits 1000 ms after the first failed attempt and 2000 ms after
\* the second whatever the failure was, does not wait after the third, and
\* then fails with the error of the third attempt.
C14_RetryPolicy ==
    [][ /\ pc = "fetch" => gen.attempt \in 1..3
        /\ pc' = "fetch" => gen'.attempt \in 1..3
        /\ (pc = "fetch" /\ gen'.log = gen.log) =>
               /\ gen.attempt < 3
               /\ pc' = "backoff"
               /\ gen'.lastError \in AiErrors
               /\ gen'.delay = IF gen.attempt = 1 THEN 1000 ELSE 2000
               /\ gen'.attempt = gen.attempt
        /\ pc = "backoff" =>
               /\ pc' = "fetch"
               /\ gen'.attempt = gen.attempt + 1
               /\ gen'.log = gen.log
        /\ (pc = "fetch" /\ CallEnds(TRUE)) =>
               \/ pc' = "trend"
               \/ pc' = "fetch" /\ gen'.phase = "plan" /\ gen'.attempt = 1
        /\ (pc = "fetch" /\ CallEnds(FALSE)) =>
               /\ gen.attempt = 3
               /\ pc' # "backoff"
               /\ gen'.log[Len(gen'.log)].error \in AiErrors
               /\ gen'.idx = gen.idx => gen'.log[Len(gen'.log)].error = gen'.lastError
      ]_vars

\* the third attempt of a call is in flight after waits of 1000 and 2000 ms,
\* the second attempt having failed with quota exceeded
C14_Witness ==
    /\ pc = "fetch"
    /\ gen.attempt = 3
    /\ gen.delay = 2000
    /\ gen.lastError = "AI service quota exceeded"

----------------------------------------------------------------------------
(* GET /api/trends: one request.  pc "lookup" is the await of the snapshot *)
(* read.                                                                   *)

MaxQueryLen == 2

\* req.query.skill and req.query.role: absent, empty, a string, and for
\* skill a repeated parameter (an array)
SkillQueries ==
    {Str(q) : q \in SeqsUpTo(Chars, MaxQueryLen)}
        \cup {Undefined, Arr(<<Some("a"), Some("b")>>)}

RoleQueries == {Undefined, Str(<<>>), Some("r1"), Some("r2"), Some("zz")}

\* the fields of a snapshot in hundredths; an absent field is Undefined
Snapshots ==
    { [postingFrequencyNorm |-> Num(100), trendSlopeNorm |-> Num(50),
       salaryIndexNorm |-> Num(25)],
      [postingFrequencyNorm |-> Num(33), trendSlopeNorm |-> Undefined,
       salaryIndexNorm |-> Undefined],
      [postingFrequencyNorm |-> Undefined, trendSlopeNorm |-> Undefined,
       salaryIndexNorm |-> Undefined] }

\* Number(x || 0) in hundredths
NumberOrZero(x) == IF Falsy(x) THEN 0 ELSE x.v

\* Math.round((0.45 * freq + 0.35 * trend + 0.20 * salary) * 100)
computeDemandScore(d) ==
    RoundRatio(45 * NumberOrZero(d.postingFrequencyNorm)
                   + 35 * NumberOrZero(d.trendSlopeNorm)
                   + 20 * NumberOrZero(d.salaryIndexNorm), 100)

TrendsRespond(status, error, body) == [status |-> status, error |-> error, body |-> body]

NoQuery == [skill |-> Undefined, role |-> Undefined]

NoLookup == [lookups |-> 0, kind |-> "none", id |-> <<>>, snap |-> "unread"]

InitTrends ==
    /\ call = NoCall
    /\ pc = "idle"
    /\ env = [apiKey |-> FALSE, roles |-> ServerCatalog]
    /\ req = NoQuery
    /\ resp = TrendsRespond(0, "", <<>>)
    /\ gen = NoLookup
    /\ store = <<>>

\* the handler up to the snapshot read
TrendsReceive ==
    /\ pc = "idle"
    /\ \E skill \in SkillQueries, role \in RoleQueries :
        /\ req' = [skill |-> skill, role |-> role]
        /\ IF Falsy(skill) /\ Falsy(role)
           THEN /\ resp' = TrendsRespond(400, "skill or role query is required", <<>>)
                /\ pc' = "done"
                /\ gen' = gen
           ELSE /\ resp' = resp
                /\ pc' = "lookup"
                /\ gen' = IF ~Falsy(skill)
                          THEN [gen EXCEPT !.lookups = 1, !.kind = "skill",
                                           !.id = canonicalizeSkillName(skill)]
                          ELSE [gen EXCEPT !.lookups = 1, !.kind = "role",
                                           !.id = role.v]
    /\ UNCHANGED <<call, env, store>>

\* the snapshot read ends: no document, a document, or a failed read
TrendsSnapshot ==
    /\ pc = "lookup"
    /\ \/ /\ resp' = TrendsRespond(404, "Not found", <<>>)
          /\ gen' = [gen EXCEPT !.snap = "missing"]
       \/ \E data \in Snapshots :
              /\ resp' = TrendsRespond(200, "", [data |-> data,
                                 demandScore |-> computeDemandScore(data)])
              /\ gen' = [gen EXCEPT !.snap = "exists"]
       \/ /\ resp' = TrendsRespond(500, "Internal server error", <<>>)
          /\ gen' = [gen EXCEPT !.snap = "failed"]
    /\ pc' = "done"
    /\ UNCHANGED <<call, env, req, store>>

SpecTrends == InitTrends /\ [][TrendsReceive \/ TrendsSnapshot]_vars

\* the query parameter is given
Given(v) == ~Falsy(v)

\* C16: a request with neither parameter, or with both, is rejected without
\* a snapshot lookup; with exactly one the lookup key is skill_<canonical
\* skill> or role_<id>, and a missing snapshot gives 404.
C16_ExactlyOneParameter ==
    pc # "idle" =>
        /\ (Given(req.skill) <=> Given(req.role)) =>
               /\ pc = "done"
               /\ resp.status = 400
               /\ gen.lookups = 0
        /\ (Given(req.skill) /\ ~Given(req.role)) =>
               /\ gen.kind = "skill"
               /\ gen.id = canonicalizeSkillName(req.skill)
        /\ (Given(req.role) /\ ~Given(req.skill)) =>
               /\ gen.kind = "role"
               /\ gen.id = req.role.v
        /\ gen.snap = "missing" => resp.status = 404

----------------------------------------------------------------------------
(* The profile the handler works with *)

\* C18: the profile handed to the ranker and the orchestrator has at most
\* 20 skills, at most 10 interests, only non-empty skills and a weeklyTime
\* in [1,40].
C18_HandedProfileBounds ==
    gen.topRoles # <<>> =>
        /\ Len(gen.profile.skills.v) <= 20
        /\ Len(gen.profile.interests.v) <= 10
        /\ \A i \in 1..Len(gen.profile.skills.v) :
               /\ IsString(gen.profile.skills.v[i])
               /\ Len(gen.profile.skills.v[i].v) > 0
        /\ gen.profile.weeklyTime.v >= 1
        /\ gen.profile.weeklyTime.v <= 40

----------------------------------------------------------------------------
(* IEEE 754 double arithmetic, for the square roots, the product and the   *)
(* quotient of cosineSimilarity.  A natural number is the sequence of its  *)
(* digits in base 2^15, lowest first, without leading zeros; a double is   *)
(* [m, e] of value m * 2^e with m of exactly 53 bits, or Zero.             *)

Limb == 2 ^ 15
MantissaBits == 52 + 1

\* the digit of weight Limb^(i - 1)
Digit(a, i) == IF i \in 1..Len(a) THEN a[i] ELSE 0

\* a without its leading zeros
BNorm(a) ==
    LET used == {i \in 1..Len(a) : a[i] # 0}
    IN  IF used = {} THEN <<>>
        ELSE SubSeq(a, 1, CHOOSE i \in used : \A j \in used : j <= i)

\* the digits of an integer below 2^31
BNat(n) == BNorm(<<n % Limb, (n \div Limb) % Limb, n \div (Limb * Limb)>>)

\* a + b + c by digits, for a carry c
RECURSIVE BAddCarry(_, _, _)
BAddCarry(a, b, c) ==
    IF a = <<>> /\ b = <<>> THEN (IF c = 0 THEN <<>> ELSE <<c>>)
    ELSE LET sum == Digit(a, 1) + Digit(b, 1) + c
         IN  <<sum % Limb>>
                 \o BAddCarry(IF a = <<>> THEN a ELSE Tail(a),
                              IF b = <<>> THEN b ELSE Tail(b), sum \div Limb)

BAdd(a, b) == BAddCarry(a, b, 0)

\* a - b - c by digits, for a >= b + c
RECURSIVE BSubBorrow(_, _, _)
BSubBorrow(a, b, c) ==
    IF a = <<>> THEN <<>>
    ELSE LET d == a[1] - Digit(b, 1) - c
         IN  <<(d + Limb) % Limb>>
                 \o BSubBorrow(Tail(a), IF b = <<>> THEN b ELSE Tail(b),
                               IF d < 0 THEN 1 ELSE 0)

BSub(a, b) == BNorm(BSubBorrow(a, b, 0))

\* a < b
BLess(a, b) ==
    \/ Len(a) < Len(b)
    \/ /\ Len(a) = Len(b)
       /\ \E i \in 1..Len(a) :
              /\ a[i] < b[i]
              /\ \A j \in (i + 1)..Len(a) : a[j] = b[j]

BOdd(a) == a # <<>> /\ a[1] % 2 = 1

\* a * d + c for d in 0..Limb and a carry c
RECURSIVE BScaleCarry(_, _, _)
BScaleCarry(a, d, c) ==
    IF a = <<>> THEN (IF c = 0 THEN <<>> ELSE <<c>>)
    ELSE LET p == a[1] * d + c
         IN  <<p % Limb>> \o BScaleCarry(Tail(a), d, p \div Limb)

BScale(a, d) == IF d = 0 THEN <<>> ELSE BScaleCarry(a, d, 0)

\* a * Limb^n
BLimbs(a, n) == IF a = <<>> THEN a ELSE [i \in 1..n |-> 0] \o a

\* a * 2^n
BShl(a, n) == BLimbs(BScale(a, 2 ^ (n % 15)), n \div 15)

\* a \div 2^n
BShr(a, n) ==
    LET rest == IF n \div 15 >= Len(a) THEN <<>> ELSE SubSeq(a, n \div 15 + 1, Len(a))
        low == 2 ^ (n % 15)
    IN  BNorm([i \in 1..Len(rest) |->
                  (rest[i] \div low)
                      + (IF i < Len(rest) THEN (rest[i + 1] % low) * (Limb \div low)
                         ELSE 0)])

BHalf(a) == BShr(a, 1)

\* the number of bits of an integer below 2^31
IntBitLen(n) == Cardinality({k \in 0..30 : 2 ^ k <= n})

BBitLen(a) == IF a = <<>> THEN 0 ELSE 15 * (Len(a) - 1) + IntBitLen(a[Len(a)])

RECURSIVE BMul(_, _)
BMul(a, b) ==
    IF b = <<>> THEN <<>>
    ELSE BAdd(BScale(a, b[1]), BLimbs(BMul(a, Tail(b)), 1))

\* the digit g with g * d <= n < (g + 1) * d, for n < d * Limb and a highest
\* digit of d of at least Limb / 2: the quotient of the leading digits is g,
\* g + 1 or g + 2
QuotientDigit(n, d) ==
    LET lead == Digit(n, Len(d) + 1) * Limb + Digit(n, Len(d))
        estimate == Min(lead \div d[Len(d)], Limb - 1)
    IN  CHOOSE g \in Max(estimate - 2, 0)..estimate :
            ~BLess(n, BScale(d, g)) /\ BLess(n, BScale(d, g + 1))

\* long division by d from digit i of n down, after the quotient q and the
\* remainder r of the digits above i; the remainder of a step is below d,
\* and testing it has TLC compute each step before the next one
RECURSIVE BDivFrom(_, _, _, _, _)
BDivFrom(n, d, i, q, r) ==
    IF i = 0 THEN [q |-> BNorm(q), r |-> r]
    ELSE LET cur == BNorm(<<n[i]>> \o r)
             digit == QuotientDigit(cur, d)
             rest == BSub(cur, BScale(d, digit))
         IN  CASE BLess(rest, d) -> BDivFrom(n, d, i - 1, <<digit>> \o q, rest)

\* [q, r] with n = q * d + r and r < d, for d > 0: both are shifted to fill
\* the highest digit of d
BDivMod(n, d) ==
    LET shift == 15 - IntBitLen(d[Len(d)])
        num == BShl(n, shift)
        h == BDivFrom(num, BShl(d, shift), Len(num), <<>>, <<>>)
    IN  [q |-> h.q, r |-> BShr(h.r, shift)]

\* Newton's iteration downwards from x >= sqrt(n)
RECURSIVE BSqrtFrom(_, _)
BSqrtFrom(n, x) ==
    LET y == BHalf(BAdd(x, BDivMod(n, x).q))
    IN  IF BLess(y, x) THEN BSqrtFrom(n, y) ELSE x

\* [s, r] with n = s * s + r and n < (s + 1) * (s + 1)
BSqrtRem(n) ==
    LET s == BSqrtFrom(n, BShl(<<1>>, (BBitLen(n) + 1) \div 2))
    IN  IF n = <<>> THEN [s |-> <<>>, r |-> <<>>]
        ELSE [s |-> s, r |-> BSub(n, BMul(s, s))]

Zero == [m |-> <<>>, e |-> 0]

\* the double of an integer below 2^31
Double(n) ==
    IF n = 0 THEN Zero
    ELSE [m |-> BShl(BNat(n), MantissaBits - IntBitLen(n)),
          e |-> IntBitLen(n) - MantissaBits]

\* a mantissa that rounding carried to 54 bits is a power of two
Renormalize(m, e) ==
    IF BBitLen(m) > MantissaBits THEN [m |-> BHalf(m), e |-> e + 1]
    ELSE [m |-> m, e |-> e]

\* the double nearest to (q + f) * 2^e, ties to even, for q of 53 bits and a
\* fraction f that is compared with one half by above and equal
RoundNearestEven(q, e, above, equal) ==
    IF above \/ (equal /\ BOdd(q)) THEN Renormalize(BAdd(q, <<1>>), e)
    ELSE [m |-> q, e |-> e]

\* the double nearest to p * 2^e
RoundTo53(p, e) ==
    LET shift == BBitLen(p) - MantissaBits
        q == BShr(p, shift)
        rem == BSub(p, BShl(q, shift))
        half == BShl(<<1>>, shift - 1)
    IN  IF p = <<>> THEN Zero
        ELSE IF shift <= 0 THEN [m |-> BShl(p, 0 - shift), e |-> e + shift]
        ELSE RoundNearestEven(q, e + shift, BLess(half, rem), rem = half)

\* Math.sqrt(x) for a double x > 0
MathSqrt(x) ==
    LET odd == (x.e % 2) # 0
        \* x = n * 4^k with n of 105 or 106 bits
        n == BShl(x.m, IF odd THEN MantissaBits ELSE MantissaBits - 1)
        k2 == IF odd THEN x.e - MantissaBits ELSE x.e - (MantissaBits - 1)
        h == BSqrtRem(n)
    IN  IF x = Zero THEN Zero
        ELSE RoundNearestEven(h.s, k2 \div 2, BLess(h.s, h.r), FALSE)

\* x * y
Times(x, y) ==
    IF x = Zero \/ y = Zero THEN Zero
    ELSE RoundTo53(BMul(x.m, y.m), x.e + y.e)

\* x / y for y # 0
DividedBy(x, y) ==
    LET h == BDivMod(BShl(x.m, MantissaBits), y.m)
        e == x.e - y.e - MantissaBits
        twice == BAdd(h.r, h.r)
    IN  IF x = Zero THEN Zero
        ELSE IF BBitLen(h.q) = MantissaBits
        THEN RoundNearestEven(h.q, e, BLess(y.m, twice), twice = y.m)
        ELSE RoundNearestEven(BHalf(h.q), e + 1, BOdd(h.q) /\ h.r # <<>>,
                              BOdd(h.q) /\ h.r = <<>>)

MaxWeight == 3

VectorKeys == {"a", "b", "c"}

\* the vectors: any keys, each with an integer weight
Vectors == UNION {[K -> 0..MaxWeight] : K \in SUBSET VectorKeys}

\* vector[key] || 0
ValueAt(vector, key) == IF key \in DOMAIN vector THEN vector[key] ELSE 0

\* the sums of the loop; they are integers, which a double holds exactly
SumOfProducts(vectorA, vectorB) ==
    LET allKeys == DOMAIN vectorA \cup DOMAIN vectorB
    IN  SumOver(allKeys, [key \in allKeys |->
                             ValueAt(vectorA, key) * ValueAt(vectorB, key)])

\* cosineSimilarity without the square roots
cosineSimilarityDoubleNoSqrt(vectorA, vectorB) ==
    LET dotProduct == Double(SumOfProducts(vectorA, vectorB))
        magnitudeA == Double(SumOfProducts(vectorA, vectorA))
        magnitudeB == Double(SumOfProducts(vectorB, vectorB))
    IN  IF magnitudeA = Zero \/ magnitudeB = Zero THEN Zero
        ELSE DividedBy(dotProduct, Times(magnitudeA, magnitudeB))

\* the double that cosineSimilarity returns
cosineSimilarityDouble(vectorA, vectorB) ==
    LET dotProduct == Double(SumOfProducts(vectorA, vectorB))
        magnitudeA == MathSqrt(Double(SumOfProducts(vectorA, vectorA)))
        magnitudeB == MathSqrt(Double(SumOfProducts(vectorB, vectorB)))
    IN  IF magnitudeA = Zero \/ magnitudeB = Zero THEN Zero
        ELSE DividedBy(dotProduct, Times(magnitudeA, magnitudeB))

\* the vectors over the first two keys
SmallVectors == {vector \in Vectors : "c" \notin DOMAIN vector}

\* every vector with itself, and every pair of vectors over two keys
CosineInputs ==
    {<<vector, vector>> : vector \in Vectors} \cup (SmallVectors \X SmallVectors)

CallCosineSimilarity ==
    /\ call = NoCall
    /\ \E input \in CosineInputs :
           call' = [fn |-> "cosineSimilarity",
                    in |-> [vectorA |-> input[1], vectorB |-> input[2]],
                    out |-> cosineSimilarityDouble(input[1], input[2])]
    /\ UNCHANGED hvars

SpecCosine == InitPure /\ [][CallCosineSimilarity]_vars

One == Double(1)

\* |x - 1| <= 2^-51
NearOne(x) ==
    \/ x.e = 1 - MantissaBits /\ ~BLess(BAdd(One.m, <<2>>), x.m)
    \/ x.e = 0 - MantissaBits /\ ~BLess(BAdd(x.m, <<4>>), BShl(<<1>>, MantissaBits))

NonZero(vector) == \E key \in DOMAIN vector : vector[key] # 0

\* no key has a non-zero weight in both vectors
NoSharedKey(vectorA, vectorB) ==
    \A key \in DOMAIN vectorA \cap DOMAIN vectorB :
        vectorA[key] = 0 \/ vectorB[key] = 0

\* C20 as claimed: cosineSimilarity(A, A) is 1 for every non-zero A; the
\* similarity is exactly 0 when A and B share no key with a non-zero weight
\* in both, and when either vector has zero magnitude.
C20_SelfSimilarityIsOne ==
    call.fn = "cosineSimilarity" =>
        LET A == call.in.vectorA
            B == call.in.vectorB
        IN  /\ (A = B /\ NonZero(A)) => call.out = One
            /\ NoSharedKey(A, B) => call.out = Zero
            /\ (~NonZero(A) \/ ~NonZero(B)) => call.out = Zero

\* C20 amended: cosineSimilarity(A, A) differs from 1 by at most 2^-51 for
\* every non-zero A; the two cases of an exact 0 are as claimed.
C20_SelfSimilarityNearOne ==
    call.fn = "cosineSimilarity" =>
        LET A == call.in.vectorA
            B == call.in.vectorB
        IN  /\ (A = B /\ NonZero(A)) => NearOne(call.out)
            /\ NoSharedKey(A, B) => call.out = Zero
            /\ (~NonZero(A) \/ ~NonZero(B)) => call.out = Zero

\* a vector whose similarity with itself is a double other than 1
C20_Witness ==
    /\ call.fn = "cosineSimilarity"
    /\ call.in.vectorA = call.in.vectorB
    /\ NonZero(call.in.vectorA)
    /\ call.out # One
    /\ NearOne(call.out)

----------------------------------------------------------------------------
(* sanitizeSkill, called on bounded skill names *)

\* a name longer than the cap that ends in stripped punctuation
LongSkillPlus == Str(LongSkill.v \o <<"+", "+">>)

SanitizeInputs ==
    {Str(s) : s \in SeqsUpTo(Chars, MaxNameLen)}
        \cup {Num(7), Undefined, Null, LongSkill, LongSkillPlus}

CallSanitizeSkill ==
    /\ call = NoCall
    /\ \E skill \in SanitizeInputs :
           call' = [fn |-> "sanitizeSkill", in |-> skill, out |-> sanitizeSkill(skill)]
    /\ UNCHANGED hvars

SpecSanitize == InitPure /\ [][CallSanitizeSkill]_vars

----------------------------------------------------------------------------
(* Errors before the first side effect *)

\* no attempt of an AI call was started and nothing was written
NoSideEffect ==
    /\ gen.attempt = 0
    /\ gen.log = <<>>
    /\ store = <<>>
    /\ pc \in {"idle", "done"}

\* C22: a request that fails strict validation is answered 400, and one that
\* finds no AI key 500 'AI service not configured', before any AI call is
\* started and before anything is written; validation comes first, so an
\* invalid request is answered 400 whether or not a key is configured.
C22_ErrorsBeforeSideEffects ==
    /\ (pc # "idle" /\ ~validateRequest(req).isValid) =>
           resp.status = 400 /\ NoSideEffect
    /\ resp.status = 400 => NoSideEffect
    /\ ~env.apiKey => NoSideEffect
    /\ resp.error = "AI service not configured" => NoSideEffect
    /\ (/\ pc # "idle"
        /\ validateRequest(req).isValid
        /\ ~normalizeProfile(req.profile).threw
        /\ ~env.apiKey) => resp = Respond(500, "AI service not configured", <<>>, <<>>)

\* an invalid request was answered 400 although no key is configured
C22_Witness ==
    /\ pc = "done"
    /\ ~env.apiKey
    /\ ~validateRequest(req).isValid
    /\ resp.status = 400
    /\ NoSideEffect

----------------------------------------------------------------------------
(* The order of the AI calls of one request *)

\* a call of callGeminiAPI is between its first attempt and its end
InFlight == pc \in {"fetch", "backoff"}

\* the place of a role in the ranking
Rank(roleId) == CHOOSE i \in 1..Len(gen.topRoles) : gen.topRoles[i].roleId = roleId

\* C23: the calls of a request end in ranking order with a role's explanation
\* before its plan; a plan call is made only after that role's explanation
\* succeeded; and while a call is in flight every call of the roles ranked
\* before it has ended and no call of a later role has been made.
C23_CallsSequential ==
    LET log == gen.log
        current == gen.topRoles[gen.idx].roleId
    IN  /\ \A i, j \in 1..Len(log) :
               i < j =>
                   \/ Rank(log[i].role) < Rank(log[j].role)
                   \/ /\ log[i].role = log[j].role
                      /\ log[i].phase = "explain"
                      /\ log[j].phase = "plan"
        /\ \A j \in 1..Len(log) :
               log[j].phase = "plan" =>
                   \E i \in 1..(j - 1) :
                       log[i].role = log[j].role /\ log[i].phase = "explain" /\ log[i].ok
        /\ InFlight =>
               /\ \A i \in 1..Len(log) : Rank(log[i].role) <= gen.idx
               /\ \A r \in 1..(gen.idx - 1) :
                      /\ CallIssued(gen.topRoles[r].roleId, "explain")
                      /\ CallOk(gen.topRoles[r].roleId, "explain")
                             => CallIssued(gen.topRoles[r].roleId, "plan")
               /\ gen.phase = "explain" => ~CallIssued(current, "explain")
               /\ gen.phase = "plan" =>
                      CallOk(current, "explain") /\ ~CallIssued(current, "plan")

\* the second role's plan call is at its second attempt after the first
\* role's explanation failed for good
C23_Witness ==
    /\ pc = "fetch"
    /\ gen.idx = 2
    /\ gen.phase = "plan"
    /\ gen.attempt = 2
    /\ Len(gen.log) = 2
    /\ ~gen.log[1].ok
    /\ gen.log[1].role = gen.topRoles[1].roleId

----------------------------------------------------------------------------
(* The fallback of the plan parser *)

\* the weeks array of the parsed text, Undefined when the text does not
\* parse or the parsed value has no weeks array
SuppliedWeeks(aiResponse) ==
    LET parsed == JSONParse(ExtractJsonString(aiResponse.v))
    IN  IF parsed.ok /\ parsed.value.t = "object"
                     /\ parsed.value.v.weeks.t = "array"
        THEN parsed.value.v.weeks ELSE Undefined

\* a value of a week that the repair has no reason to touch
ValidList(v) == v.t = "array" /\ v.v # <<>> /\ \A i \in 1..Len(v.v) : IsString(v.v[i])
ValidText(v) == IsString(v) /\ v.v # <<>>

\* the returned week i is the supplied week i with its valid values
KeepsWeek(returned, supplied) ==
    supplied.t = "object" =>
        /\ returned.t = "object"
        /\ ValidList(supplied.v.topics) => returned.v.topics = supplied.v.topics
        /\ ValidList(supplied.v.practice) => returned.v.practice = supplied.v.practice
        /\ ValidText(supplied.v.assessment) => returned.v.assessment = supplied.v.assessment
        /\ ValidText(supplied.v.project) => returned.v.project = supplied.v.project

\* C24: parseLearningPlan returns the generic plan exactly when the extracted
\* text does not parse or the parsed value has no weeks array; otherwise the
\* first four supplied weeks are returned in their order with their valid
\* topics, practice, assessment and project unchanged.
C24_FallbackExactlyWhen ==
    (call.fn = "parseLearningPlan" /\ IsString(call.in)) =>
        LET supplied == SuppliedWeeks(call.in)
        IN  /\ (call.out = fallbackPlan) <=> (supplied = Undefined)
            /\ supplied # Undefined =>
                   \A i \in 1..Min(4, Len(supplied.v)) :
                       KeepsWeek(call.out.weeks[i], supplied.v[i])

-----------------------------------------------------------------------------
(* The browser client: public/app.js, the dashboard actions, the API client *)

NoUser == "null"
NoProfile == "null"
Users == {"u1", "u2"}

MaxDocs == 2                \* documents the server adds to the store
retryMaxRetries == 3        \* default of getRecommendationsWithRetry's maxRetries

\* a document of the store; added documents get the ids 1, 2, ...
Doc(collection, uid, id) == [collection |-> collection, uid |-> uid, id |-> id]

\* users/<uid>/profile/main and users/<uid>, which have fixed ids
ProfileDoc(uid) == Doc("profile", uid, 0)
UserDoc(uid) == Doc("users", uid, 0)

\* the object literal assigned to window.app copies the values the two
\* module variables hold when the script runs
ExportApp(currentUser, userProfile) ==
    [currentUser |-> currentUser, userProfile |-> userProfile]

\* the client once its scripts have run: the observer has not been called yet
ClientStart ==
    [currentUser |-> NoUser, userProfile |-> NoProfile,
     app |-> ExportApp(NoUser, NoProfile),
     loading |-> {},              \* loadUserProfile calls awaiting their read
     ui |-> [auth |-> "none", name |-> NoProfile],
     fn |-> "none",               \* the last function called
     uid |-> NoUser,              \* its user id
     returned |-> "none",         \* what it returned, or the message it showed
     snapshot |-> {}, attempt |-> 0, waits |-> <<>>, lastError |-> "undefined",
     sent |-> 0,                  \* requests sent to /api/recommend
     added |-> 0]                 \* documents added to the store

InitClient ==
    /\ call = NoCall
    /\ pc = "idle"
    /\ env = [apiKey |-> FALSE]
    /\ req = Undefined
    /\ resp = [status |-> 0]
    /\ gen = ClientStart
    /\ store = {}

\* the ways one call of getRecommendations can end: without a user in
\* window.app it returns null at once; otherwise the request is sent and it
\* returns the recommendations, or null after any failure. It never throws.
getRecommendations(app) ==
    IF app.currentUser = NoUser
    THEN {"User not authenticated"}
    ELSE {"recommendations", "null"}

\* the documents one answered request leaves in the history of a user: the
\* one saveRecommendationsToFirestore adds and the one saveRecommendations adds
HistoryDocs(outcome, uid, serverSaved, clientSaved, added) ==
    IF outcome # "recommendations" THEN {}
    ELSE (IF serverSaved THEN {Doc("recommendations", uid, added + 1)} ELSE {})
         \cup (IF clientSaved THEN {Doc("recommendations", uid, added + 2)} ELSE {})

\* the observer callback, which runs to its end without a pause: the profile
\* load is started and not awaited, the interface is updated at once
AuthStateChanged ==
    /\ \E user \in Users \cup {NoUser} :
        gen' = IF user # NoUser
               THEN [gen EXCEPT !.currentUser = user,
                                !.loading = @ \cup {user},
                                !.ui = [auth |-> "in",
                                        name |-> IF gen.userProfile # NoProfile
                                                 THEN gen.userProfile ELSE @.name]]
               ELSE [gen EXCEPT !.currentUser = user,
                                !.ui = [auth |-> "out", name |-> @.name]]
    /\ UNCHANGED <<call, pc, env, req, resp, store>>

\* the read of loadUserProfile ends
LoadUserProfileDone ==
    /\ \E uid \in gen.loading, failed \in BOOLEAN :
        gen' = [gen EXCEPT
                  !.loading = @ \ {uid},
                  !.userProfile = IF failed THEN @
                                  ELSE IF ProfileDoc(uid) \in store
                                       THEN uid ELSE NoProfile]
    /\ UNCHANGED <<call, pc, env, req, resp, store>>

\* handleProfileSubmit up to the write of saveUserProfile
HandleProfileSubmit ==
    /\ pc = "idle"
    /\ IF gen.currentUser = NoUser
       THEN /\ gen' = [gen EXCEPT !.fn = "handleProfileSubmit",
                                  !.returned = "Please sign in first"]
            /\ pc' = pc
       ELSE \E filled \in BOOLEAN :
            IF ~filled
            THEN /\ gen' = [gen EXCEPT !.fn = "handleProfileSubmit",
                                       !.returned = "Please fill in all required fields"]
                 /\ pc' = pc
            ELSE /\ gen' = [gen EXCEPT !.fn = "handleProfileSubmit",
                                       !.uid = gen.currentUser, !.returned = "none"]
                 /\ pc' = "saveUserProfile"
    /\ UNCHANGED <<call, env, req, resp, store>>

\* the write of saveUserProfile ends and handleProfileSubmit runs to its end:
\* getRecommendations, then saveRecommendations on what it returned
SaveUserProfileDone ==
    /\ pc = "saveUserProfile"
    /\ pc' = "idle"
    /\ \E written \in BOOLEAN :
        IF ~written
        THEN /\ gen' = [gen EXCEPT !.returned = "Failed to save profile"]
             /\ store' = store
        ELSE \E outcome \in getRecommendations(gen.app) :
             IF outcome = "User not authenticated"
             THEN /\ gen' = [gen EXCEPT !.userProfile = gen.uid, !.returned = outcome]
                  /\ store' = store \cup {ProfileDoc(gen.uid)}
             ELSE \E serverSaved \in BOOLEAN, clientSaved \in BOOLEAN :
                  /\ gen' = [gen EXCEPT
                        !.userProfile = gen.uid, !.returned = outcome,
                        !.sent = @ + 1,
                        !.added = IF outcome = "recommendations" THEN @ + 2 ELSE @]
                  /\ store' = store \cup {ProfileDoc(gen.uid)}
                                    \cup HistoryDocs(outcome, gen.app.currentUser,
                                                     serverSaved, clientSaved, gen.added)
    /\ UNCHANGED <<call, env, req, resp>>

\* regenerateRecommendations
RegenerateRecommendations ==
    /\ pc = "idle"
    /\ IF gen.app.currentUser = NoUser \/ gen.app.userProfile = NoProfile
       THEN /\ gen' = [gen EXCEPT !.fn = "regenerateRecommendations",
                                  !.returned = "Please complete your profile first"]
            /\ store' = store
       ELSE \E outcome \in getRecommendations(gen.app),
               serverSaved \in BOOLEAN, clientSaved \in BOOLEAN :
            /\ gen' = [gen EXCEPT
                  !.fn = "regenerateRecommendations", !.returned = outcome,
                  !.sent = @ + 1,
                  !.added = IF outcome = "recommendations" THEN @ + 2 ELSE @]
            /\ store' = store \cup HistoryDocs(outcome, gen.app.currentUser,
                                               serverSaved, clientSaved, gen.added)
    /\ UNCHANGED <<call, pc, env, req, resp>>

\* saveLearningPlan: reading the uid of a null window.app.currentUser throws
\* inside the try block
SaveLearningPlan ==
    /\ pc = "idle"
    /\ \E currentLearningPlan \in BOOLEAN :
        IF ~currentLearningPlan
        THEN /\ gen' = [gen EXCEPT !.fn = "saveLearningPlan",
                                   !.returned = "No learning plan to save"]
             /\ store' = store
        ELSE IF gen.app.currentUser = NoUser
        THEN /\ gen' = [gen EXCEPT !.fn = "saveLearningPlan",
                                   !.returned = "Failed to save learning plan"]
             /\ store' = store
        ELSE \E written \in BOOLEAN :
             /\ gen' = [gen EXCEPT
                   !.fn = "saveLearningPlan",
                   !.added = IF written THEN @ + 1 ELSE @,
                   !.returned = IF written THEN "Learning plan saved successfully!"
                                ELSE "Failed to save learning plan"]
             /\ store' = IF written
                         THEN store \cup {Doc("savedPlans", gen.app.currentUser,
                                              gen.added + 1)}
                         ELSE store
    /\ UNCHANGED <<call, pc, env, req, resp>>

\* confirmDeleteData up to the first write of deleteUserData
ConfirmDeleteData ==
    /\ pc = "idle"
    /\ gen' = IF gen.app.currentUser = NoUser
              THEN [gen EXCEPT !.fn = "confirmDeleteData",
                               !.returned = "No user logged in"]
              ELSE [gen EXCEPT !.fn = "deleteUserData", !.uid = gen.app.currentUser,
                               !.returned = "none"]
    /\ pc' = IF gen.app.currentUser = NoUser THEN pc ELSE "deleteProfile"
    /\ UNCHANGED <<call, env, req, resp, store>>

\* deleteUserData called with a user id
CallDeleteUserData ==
    /\ pc = "idle"
    /\ \E uid \in Users :
        gen' = [gen EXCEPT !.fn = "deleteUserData", !.uid = uid,
                           !.returned = "none"]
    /\ pc' = "deleteProfile"
    /\ UNCHANGED <<call, env, req, resp, store>>

\* one awaited store operation of deleteUserData ends; any of them can fail
DeleteUserDataStep ==
    /\ pc \in {"deleteProfile", "readRecommendations", "deleteRecommendations",
               "deleteUser"}
    /\ \E failed \in BOOLEAN :
        IF failed
        THEN /\ pc' = "idle"
             /\ gen' = [gen EXCEPT !.returned = "false", !.snapshot = {}]
             /\ IF pc = "deleteRecommendations"
                THEN \E deleted \in SUBSET gen.snapshot : store' = store \ deleted
                ELSE store' = store
        ELSE CASE pc = "deleteProfile" ->
                    /\ store' = store \ {ProfileDoc(gen.uid)}
                    /\ gen' = gen
                    /\ pc' = "readRecommendations"
               [] pc = "readRecommendations" ->
                    /\ store' = store
                    /\ gen' = [gen EXCEPT !.snapshot =
                                  {d \in store : /\ d.collection = "recommendations"
                                                 /\ d.uid = gen.uid}]
                    /\ pc' = "deleteRecommendations"
               [] pc = "deleteRecommendations" ->
                    /\ store' = store \ gen.snapshot
                    /\ gen' = [gen EXCEPT !.snapshot = {}]
                    /\ pc' = "deleteUser"
               [] pc = "deleteUser" ->
                    /\ store' = store \ {UserDoc(gen.uid)}
                    /\ gen' = [gen EXCEPT !.returned = "true"]
                    /\ pc' = "idle"
    /\ UNCHANGED <<call, env, req, resp>>

\* the server answers a POST /api/recommend of some caller for a user: its
\* saveRecommendationsToFirestore adds a document to that user's history
ServerSave ==
    /\ gen.added < MaxDocs
    /\ \E uid \in Users :
        /\ store' = store \cup {Doc("recommendations", uid, gen.added + 1)}
        /\ gen' = [gen EXCEPT !.added = @ + 1]
    /\ UNCHANGED <<call, pc, env, req, resp>>

\* getRecommendationsWithRetry called
CallGetRecommendationsWithRetry ==
    /\ pc = "idle"
    /\ gen' = [gen EXCEPT !.fn = "getRecommendationsWithRetry", !.attempt = 1,
                          !.waits = <<>>, !.lastError = "undefined",
                          !.returned = "none"]
    /\ pc' = "attempt"
    /\ UNCHANGED <<call, env, req, resp, store>>

\* one turn of the loop of getRecommendationsWithRetry: the wait is part of
\* the catch block, which only a throwing getRecommendations would enter
RetryAttempt ==
    /\ pc = "attempt"
    /\ \E outcome \in getRecommendations(gen.app) :
        LET sent == IF outcome = "User not authenticated" THEN gen.sent ELSE gen.sent + 1
            last == gen.attempt >= retryMaxRetries
        IN  IF outcome = "recommendations"
            THEN /\ gen' = [gen EXCEPT !.returned = outcome, !.sent = sent]
                 /\ pc' = "idle"
            ELSE IF outcome = "throws"
            THEN /\ gen' = [gen EXCEPT
                       !.lastError = outcome, !.sent = sent,
                       !.waits = IF last THEN @
                                 ELSE Append(@, Min(1000 * 2 ^ (gen.attempt - 1), 10000)),
                       !.attempt = IF last THEN @ ELSE @ + 1,
                       !.returned = IF last THEN "throws" ELSE @]
                 /\ pc' = IF last THEN "idle" ELSE pc
            ELSE /\ gen' = [gen EXCEPT
                       !.sent = sent,
                       !.attempt = IF last THEN @ ELSE @ + 1,
                       !.returned = IF last THEN "throws" ELSE @]
                 /\ pc' = IF last THEN "idle" ELSE pc
    /\ UNCHANGED <<call, env, req, resp, store>>

NextClient ==
    \/ AuthStateChanged \/ LoadUserProfileDone
    \/ HandleProfileSubmit \/ SaveUserProfileDone
    \/ RegenerateRecommendations \/ SaveLearningPlan
    \/ ConfirmDeleteData \/ CallDeleteUserData \/ DeleteUserDataStep
    \/ ServerSave
    \/ CallGetRecommendationsWithRetry \/ RetryAttempt

SpecClient == InitClient /\ [][NextClient]_vars

\* C25: once the observer has reported a signed-in user, window.app.currentUser
\* is that user and, when a profile has been loaded or saved, window.app.userProfile
\* is that profile, so that getRecommendations does not return null as
\* 'User not authenticated'.
C25_ExportFollowsObserver ==
    gen.currentUser # NoUser =>
        /\ gen.app.currentUser = gen.currentUser
        /\ gen.userProfile # NoProfile => gen.app.userProfile = gen.userProfile
        /\ "User not authenticated" \notin getRecommendations(gen.app)

\* C26: a request answered with 200 has appended exactly one document to the
\* recommendation history of its user.
C26_OneDocumentPerGeneration ==
    (pc = "done" /\ resp.status = 200) =>
        Len(SelectSeq(store, LAMBDA d : d.userId = req.uid)) = 1

\* C27: at the step in which deleteUserData returns true, no document of that
\* user is left in the store.
C27_NothingLeftAfterDelete ==
    [][(pc = "deleteUser" /\ gen'.returned = "true")
           => \A d \in store' : d.uid # gen.uid]_vars

\* C28: the interface shows the signed-in state of a user only when no
\* loadUserProfile of that user is still awaiting its read, that is, the
\* update came after the load had completed.
C28_UpdateAfterLoad ==
    gen.ui.auth = "in" => gen.currentUser \notin gen.loading

\* C30: getRecommendationsWithRetry makes at most maxRetries attempts, has
\* waited min(1000 * 2^(attempt-1), 10000) ms after every failed attempt that
\* another one followed, and when it throws after the last failed attempt it
\* throws the error of that failure.
C30_RetryContract ==
    gen.fn = "getRecommendationsWithRetry" =>
        /\ gen.attempt <= retryMaxRetries
        /\ Len(gen.waits) = gen.attempt - 1
        /\ \A i \in 1..Len(gen.waits) : gen.waits[i] = Min(1000 * 2 ^ (i - 1), 10000)
        /\ gen.returned = "throws" => gen.lastError # "undefined"

-----------------------------------------------------------------------------
(* The client RateLimiter *)

maxRequests == 2      \* requests the limiter lets through per window
timeWindow == 3       \* length of the window, in clock ticks
MaxTime == 5          \* last tick of the clock
MaxCalls == 5         \* calls of canMakeRequest

\* canMakeRequest drops too early: an entry leaves one tick before the window ends
canMakeRequestShortWindow(requests, now) ==
    LET kept == SelectSeq(requests, LAMBDA time : now - time < timeWindow - 1)
    IN  IF Len(kept) < maxRequests
        THEN [requests |-> Append(kept, now), result |-> TRUE]
        ELSE [requests |-> kept, result |-> FALSE]

\* canMakeRequest at the time now: the list it leaves and the value it returns
canMakeRequest(requests, now) ==
    LET kept == SelectSeq(requests, LAMBDA time : now - time < timeWindow)
    IN  IF Len(kept) < maxRequests
        THEN [requests |-> Append(kept, now), result |-> TRUE]
        ELSE [requests |-> kept, result |-> FALSE]

\* a new RateLimiter, the clock at 0, no call made
InitLimiter ==
    /\ call = NoCall
    /\ pc = "idle"
    /\ env = [apiKey |-> FALSE]
    /\ req = Undefined
    /\ resp = [status |-> 0]
    /\ gen = [now |-> 0, requests |-> <<>>, calls |-> <<>>]
    /\ store = <<>>

\* Date.now() moves on
ClockTick ==
    /\ gen.now < MaxTime
    /\ gen' = [gen EXCEPT !.now = @ + 1]
    /\ UNCHANGED <<call, pc, env, req, resp, store>>

\* one call of apiRateLimiter.canMakeRequest
CallCanMakeRequest ==
    /\ Len(gen.calls) < MaxCalls
    /\ LET out == canMakeRequest(gen.requests, gen.now)
       IN  gen' = [gen EXCEPT !.requests = out.requests,
                              !.calls = Append(@, [time |-> gen.now,
                                                   result |-> out.result])]
    /\ UNCHANGED <<call, pc, env, req, resp, store>>

SpecLimiter == InitLimiter /\ [][ClockTick \/ CallCanMakeRequest]_vars

\* the times of the calls that returned true and are less than a window
\* before the last call
Granted(calls) ==
    LET last == calls[Len(calls)].time
        kept == SelectSeq(calls, LAMBDA c : c.result /\ last - c.time < timeWindow)
    IN  [i \in 1..Len(kept) |-> kept[i].time]

\* C29: in any interval shorter than timeWindow at most maxRequests calls
\* returned true; the stored list holds the times of calls that returned
\* true and of no other call; it never holds more than maxRequests entries.
C29_AtMostMaxRequestsPerWindow ==
    /\ \A from \in 0..MaxTime :
          Cardinality({i \in 1..Len(gen.calls) :
                          /\ gen.calls[i].result
                          /\ gen.calls[i].time \in from..(from + timeWindow - 1)})
              <= maxRequests
    /\ gen.calls # <<>> => gen.requests = Granted(gen.calls)
    /\ Len(gen.requests) <= maxRequests

\* a call was refused and a later one, after the window had moved on, was let through
C29_Witness ==
    \E i, j \in 1..Len(gen.calls) :
        /\ i < j
        /\ ~gen.calls[i].result
        /\ gen.calls[j].result

====
